---- MODULE Spec2Model ----
(***************************************************************************)
(* StudyVault: the library service (records, undo history, task queue,     *)
(* recently viewed) and the search service (keyword index, tag frequency,  *)
(* ranked search).                                                         *)
(*                                                                         *)
(* A Python str is a sequence of one-character strings, so that lower(),   *)
(* strip(), split() and the substring test are computed, not assumed.      *)
(***************************************************************************)
EXTENDS Integers, Sequences, FiniteSets, TLC

VARIABLES items, undo_stack, clock, pushes_left, pushed, ret,
          task_queue, recently_viewed, tret, added, returned, drained,
          keyword_to_items, tag_frequency, indexed, sret,
          data_file, written, lret,
          the_item, iret,
          store, item_refs, undo_refs, held, snap, aret,
          given, out,
          entries, processed_paths, yielded, mret

vars == <<items, undo_stack, clock, pushes_left, pushed, ret,
          task_queue, recently_viewed, tret, added, returned, drained,
          keyword_to_items, tag_frequency, indexed, sret,
          data_file, written, lret,
          the_item, iret,
          store, item_refs, undo_refs, held, snap, aret,
          given, out,
          entries, processed_paths, yielded, mret>>

\* the state of the search service and of its last call
svars == <<keyword_to_items, tag_frequency, indexed, sret>>

\* the data file of the repository, the bytes last written to it in full,
\* and the outcome of the last load_library
rvars == <<data_file, written, lret>>

\* a record under its own operations, and the last of these calls
ivars == <<the_item, iret>>

\* records as objects with references: the objects, the collection and the
\* undo history of a service holding references, the caller's reference,
\* snapshots taken outside the service, and the last call
avars == <<store, item_refs, undo_refs, held, snap, aret>>

\* the arguments a function is called with, and what the calls on them gave
pvars == <<given, out>>

\* the files on disk and the import service
mvars == <<entries, processed_paths, yielded, mret>>

(***************************************************************************)
(* Bounds of the model                                                     *)
(***************************************************************************)
MaxItems == 2

MaxPushes == 1

MaxExtraPushes == 1

MaxTasks == 1

MaxQueue == 4

MaxPriority == 3

MaxIndexed == 2

MaxViewed == 1

\* the records of a saved library
MaxStored == 1

\* the highest version number a data file is found with
MaxVersion == 2

\* the ratings given are -MaxRating..MaxRating
MaxRating == 6

\* the tags a record under its own operations holds at most
MaxTags == 3

\* Item objects on the heap, the snapshots' copies included
MaxObjects == 3

\* length of the lists of tasks that are compared and sorted
MaxSorted == 3

\* the tasks queued when the application quits
MaxSaved == 2

\* view_item calls made on a recently-viewed stack at or near its limit
MaxViews == 2

\* the highest small count get_recent_history is called with
MaxCount == 3

\* the changes a caller makes to one returned dict
MaxEdits == 2

\* the records indexed while a caller holds a returned dict
MaxCopied == 1

\* the files and links on disk
MaxFiles == 3

\* the tasks queued while priorities are changed
MaxChanged == 2

\* the tasks queued for records that come and go, and their priorities
MaxOrphans == 2

\* the snapshots pushed while runs of operations are undone
MaxRun == 2

\* the snapshots of a full history that are undone
MaxUndone == 3

(***************************************************************************)
(* Program constants                                                       *)
(***************************************************************************)
MAX_UNDO_STACK == 50

MAX_RECENT_ITEMS == 50

FILE_VERSION == 1

\* b"LIB"
MAGIC_NUMBER == <<76, 73, 66>>

(***************************************************************************)
(* Sequence helpers                                                        *)
(***************************************************************************)
Range(s) == {s[i] : i \in DOMAIN s}

Min(a, b) == IF a <= b THEN a ELSE b

Max(a, b) == IF a >= b THEN a ELSE b

\* list.index(x): first position holding a value equal to x, 0 if none
IndexOf(s, x) ==
  IF \E i \in DOMAIN s : s[i] = x
    THEN CHOOSE i \in DOMAIN s : s[i] = x /\ \A j \in 1..(i - 1) : s[j] # x
    ELSE 0

RemoveAt(s, i) == SubSeq(s, 1, i - 1) \o SubSeq(s, i + 1, Len(s))

\* the last n elements of s
LastN(s, n) == SubSeq(s, Len(s) - n + 1, Len(s))

IsSuffix(t, s) == Len(t) <= Len(s) /\ t = LastN(s, Len(t))

CountId(s, id) == Cardinality({i \in DOMAIN s : s[i].id = id})

\* no function called yet
NoArg == <<>>

NoOut == [op |-> "none"]

(***************************************************************************)
(* Python str operations on sequences of characters                        *)
(***************************************************************************)
LowerChar(c) ==
  CASE c = "A" -> "a"
    [] c = "B" -> "b"
    [] c = "C" -> "c"
    [] c = "D" -> "d"
    [] c = "F" -> "f"
    [] c = "P" -> "p"
    [] OTHER -> c

\* str.lower()
lower(s) == [i \in DOMAIN s |-> LowerChar(s[i])]

IsSpace(c) == c = " "

RECURSIVE lstrip(_)
lstrip(s) == IF s # <<>> /\ IsSpace(Head(s)) THEN lstrip(Tail(s)) ELSE s

RECURSIVE rstrip(_)
rstrip(s) ==
  IF s # <<>> /\ IsSpace(s[Len(s)])
    THEN rstrip(SubSeq(s, 1, Len(s) - 1)) ELSE s

\* str.strip()
strip(s) == rstrip(lstrip(s))

\* str.split(): the maximal runs of non-space characters, in order
RECURSIVE split_loop(_, _, _)
split_loop(s, word, words) ==
  IF s = <<>>
    THEN IF word = <<>> THEN words ELSE Append(words, word)
    ELSE IF IsSpace(Head(s))
           THEN split_loop(Tail(s), <<>>,
                           IF word = <<>> THEN words ELSE Append(words, word))
           ELSE split_loop(Tail(s), Append(word, Head(s)), words)

split(s) == split_loop(s, <<>>, <<>>)

\* sub in s
contains(sub, s) ==
  \E i \in 0..(Len(s) - Len(sub)) : SubSeq(s, i + 1, i + Len(sub)) = sub

\* dict.get(key, default)
dict_get(d, key, default) == IF key \in DOMAIN d THEN d[key] ELSE default

EmptyDict == [k \in {} |-> {}]

(***************************************************************************)
(* Records (Item).  Dataclass equality compares every field, which is      *)
(* equality of TLA+ records.                                               *)
(***************************************************************************)
\* the field values a record of the model can take, by variant
ItemVariant(v) ==
  CASE v = 1 -> [title |-> <<"a">>, tags |-> <<>>, rating |-> 0,
                 file_path |-> "None"]
    [] v = 2 -> [title |-> <<"A", " ", "b">>, tags |-> << <<"B">>, <<>> >>,
                 rating |-> 4, file_path |-> "f.pdf"]
    [] v = 3 -> [title |-> <<"b">>, tags |-> << <<"a">>, <<"A">> >>,
                 rating |-> 0, file_path |-> "None"]
    [] v = 4 -> [title |-> <<"a", "b">>, tags |-> << <<"a", " ", "b">> >>,
                 rating |-> 0, file_path |-> "None"]
    [] v = 5 -> [title |-> <<"c">>, tags |-> << <<" ", "b">> >>,
                 rating |-> 0, file_path |-> "None"]

Item(id, v) ==
  [id |-> id,
   title |-> ItemVariant(v).title,
   category |-> <<"C">>,
   type |-> <<"p", "d", "f">>,
   tags |-> ItemVariant(v).tags,
   created_at |-> 0,
   rating |-> ItemVariant(v).rating,
   media_url |-> "None",
   file_path |-> ItemVariant(v).file_path]

\* the records the library operations are called with: two states of one
\* record, and another record
LibraryItems == {Item("id1", 1), Item("id1", 2), Item("id2", 1)}

(***************************************************************************)
(* Item: construction and the operations on one record.  An operation      *)
(* returns the record as it leaves it, with the value or exception of the  *)
(* call.                                                                   *)
(***************************************************************************)
VALID_TYPES ==
  {<<"n", "o", "t", "e">>, <<"p", "d", "f">>, <<"a", "u", "d", "i", "o">>,
   <<"v", "i", "d", "e", "o">>}

\* the rating __post_init__ leaves
validate_and_clamp_rating(rating) ==
  IF rating > 0 THEN Max(1, Min(5, rating))
  ELSE IF rating < 0 THEN 0
  ELSE rating

\* Item(title, category, type, tags=..., rating=...): the dataclass __init__
\* followed by __post_init__
construct_item(title, category, type, tags, rating) ==
  IF strip(title) = <<>> \/ strip(category) = <<>>
       \/ strip(lower(type)) \notin VALID_TYPES
    THEN [raised |-> "ValueError"]
    ELSE [raised |-> "no",
          item |-> [id |-> "id1",
                    title |-> strip(title),
                    category |-> strip(category),
                    type |-> strip(lower(type)),
                    tags |-> tags,
                    created_at |-> 0,
                    rating |-> validate_and_clamp_rating(rating),
                    media_url |-> "None",
                    file_path |-> "None"]]

\* faulty variant: a negative rating becomes 0, as in the constructor
set_rating_as_constructed(self, value) ==
  [self EXCEPT !.rating = validate_and_clamp_rating(value)]

set_rating(self, value) ==
  [self EXCEPT !.rating = IF value = 0 THEN 0 ELSE Max(1, Min(5, value))]

\* [t.lower() for t in self.tags]
lowered(tags) == [i \in DOMAIN tags |-> lower(tags[i])]

add_tag(self, tag) ==
  LET tag_clean == lower(strip(tag))
  IN IF tag_clean = <<>>
       THEN self
       ELSE IF tag_clean \notin Range(lowered(self.tags))
              THEN [self EXCEPT !.tags = Append(@, tag_clean)]
              ELSE self

\* the loop of remove_tag: the first tag equal to the given one, whatever
\* the case, is removed
remove_tag(self, tag) ==
  LET tag_clean == lower(strip(tag))
      found == IndexOf(lowered(self.tags), tag_clean)
  IN IF found # 0
       THEN [result |-> TRUE,
             item |-> [self EXCEPT !.tags = RemoveAt(@, found)]]
       ELSE [result |-> FALSE, item |-> self]

\* Item.from_dict(data): the constructor with title, category and type, then
\* the other fields assigned from the dictionary
from_dict(data) ==
  LET made == construct_item(data.title, data.category, data.type, <<>>, 0)
  IN IF made.raised # "no"
       THEN made
       ELSE [raised |-> "no",
             item |-> [made.item EXCEPT
                         !.id = dict_get(data, "id", @),
                         !.tags = dict_get(data, "tags", <<>>),
                         !.rating = dict_get(data, "rating", 0)]]

(***************************************************************************)
(* Memento                                                                 *)
(***************************************************************************)
\* faulty variant: a copy that does not carry the tags over
copy_without_tags(original) ==
  [f \in DOMAIN original |-> IF f = "tags" THEN <<>> ELSE original[f]]

\* copy.deepcopy of a record: a value with the same fields, sharing nothing
deep_copy_item(original) == [f \in DOMAIN original |-> original[f]]

Memento(item, operation_type, now) ==
  [saved_item |-> deep_copy_item(item),
   operation_type |-> operation_type,
   timestamp |-> now]

(***************************************************************************)
(* LibraryService: records and undo                                        *)
(***************************************************************************)
\* faulty variant: the history grows without eviction
push_memento_unbounded(stack, memento) == Append(stack, memento)

\* undo_stack.append(memento), then pop(0) when the limit is exceeded
push_memento(stack, memento) ==
  LET appended == Append(stack, memento)
  IN IF Len(appended) > MAX_UNDO_STACK THEN Tail(appended) ELSE appended

add_item(its, item) == Append(its, item)

\* faulty variant: the snapshot is pushed before the record is looked for
delete_item_push_first(its, stack, now, item) ==
  LET pushed_stack == push_memento(stack, Memento(item, "DELETE", now))
  IN IF item \notin Range(its)
       THEN [result |-> FALSE, items |-> its, undo_stack |-> pushed_stack]
       ELSE [result |-> TRUE,
             items |-> RemoveAt(its, IndexOf(its, item)),
             undo_stack |-> pushed_stack]

delete_item(its, stack, now, item) ==
  IF item \notin Range(its)
    THEN [result |-> FALSE, items |-> its, undo_stack |-> stack]
    ELSE [result |-> TRUE,
          items |-> RemoveAt(its, IndexOf(its, item)),
          undo_stack |-> push_memento(stack, Memento(item, "DELETE", now))]

\* faulty variant: the snapshot is taken of the new state
update_item_saving_new(its, stack, now, old_item, new_item) ==
  LET index == IndexOf(its, old_item)
  IN IF index = 0
       THEN [result |-> FALSE, items |-> its, undo_stack |-> stack]
       ELSE [result |-> TRUE,
             items |-> [its EXCEPT ![index] = new_item],
             undo_stack |->
               push_memento(stack, Memento(new_item, "EDIT", now))]

update_item(its, stack, now, old_item, new_item) ==
  LET index == IndexOf(its, old_item)
  IN IF index = 0
       THEN [result |-> FALSE, items |-> its, undo_stack |-> stack]
       ELSE [result |-> TRUE,
             items |-> [its EXCEPT ![index] = new_item],
             undo_stack |->
               push_memento(stack, Memento(old_item, "EDIT", now))]

\* position of the first record with the given id, 0 if none
FirstWithId(its, id) ==
  IF \E i \in DOMAIN its : its[i].id = id
    THEN CHOOSE i \in DOMAIN its :
           its[i].id = id /\ \A j \in 1..(i - 1) : its[j].id # id
    ELSE 0

\* faulty variant: the oldest snapshot is the one taken from the history
undo_oldest_first(its, stack) ==
  IF stack = <<>>
    THEN [result |-> FALSE, items |-> its, undo_stack |-> stack]
    ELSE LET memento == stack[1]
             popped == Tail(stack)
             saved == memento.saved_item
             i == FirstWithId(its, saved.id)
         IN IF memento.operation_type = "DELETE"
              THEN [result |-> TRUE, items |-> Append(its, saved),
                    undo_stack |-> popped]
              ELSE IF i # 0
                     THEN [result |-> TRUE,
                           items |-> [its EXCEPT ![i] = saved],
                           undo_stack |-> popped]
                     ELSE [result |-> FALSE, items |-> its,
                           undo_stack |-> popped]

\* faulty variant: the saved state of an edited record is appended
undo_appending(its, stack) ==
  IF stack = <<>>
    THEN [result |-> FALSE, items |-> its, undo_stack |-> stack]
    ELSE [result |-> TRUE,
          items |-> Append(its, stack[Len(stack)].saved_item),
          undo_stack |-> SubSeq(stack, 1, Len(stack) - 1)]

\* faulty variant: an empty history is reported as an undo done
undo_unguarded(its, stack) ==
  IF stack = <<>>
    THEN [result |-> TRUE, items |-> its, undo_stack |-> stack]
    ELSE LET memento == stack[Len(stack)]
             popped == SubSeq(stack, 1, Len(stack) - 1)
             saved == memento.saved_item
             i == FirstWithId(its, saved.id)
         IN IF memento.operation_type = "DELETE"
              THEN [result |-> TRUE, items |-> Append(its, saved),
                    undo_stack |-> popped]
              ELSE IF i # 0
                     THEN [result |-> TRUE,
                           items |-> [its EXCEPT ![i] = saved],
                           undo_stack |-> popped]
                     ELSE [result |-> FALSE, items |-> its,
                           undo_stack |-> popped]

undo(its, stack) ==
  IF stack = <<>>
    THEN [result |-> FALSE, items |-> its, undo_stack |-> stack]
    ELSE LET memento == stack[Len(stack)]
             popped == SubSeq(stack, 1, Len(stack) - 1)
             saved == memento.saved_item
         IN CASE memento.operation_type = "DELETE" ->
                   [result |-> TRUE, items |-> Append(its, saved),
                    undo_stack |-> popped]
              [] memento.operation_type = "EDIT" ->
                   LET i == FirstWithId(its, saved.id)
                   IN IF i # 0
                        THEN [result |-> TRUE,
                              items |-> [its EXCEPT ![i] = saved],
                              undo_stack |-> popped]
                        ELSE [result |-> FALSE, items |-> its,
                              undo_stack |-> popped]
              [] OTHER ->
                   [result |-> FALSE, items |-> its, undo_stack |-> popped]

can_undo(stack) == Len(stack) > 0

(***************************************************************************)
(* Records as objects                                                      *)
(*                                                                         *)
(* A heap h holds the Item objects (h.objs) and their tag lists (h.lists): *)
(* an Item object refers to its list by position, and a reference to an    *)
(* Item is its position in h.objs.  Assigning a field or appending to the  *)
(* list changes the object for every holder of a reference to it.          *)
(***************************************************************************)
\* the record a reference denotes, with the contents of its tag list
Deref(h, ref) ==
  [id |-> h.objs[ref].id, title |-> h.objs[ref].title,
   tags |-> h.lists[h.objs[ref].tags], rating |-> h.objs[ref].rating]

\* a new Item object with a tag list of its own
alloc_item(h, id, title, tags, rating) ==
  LET lists == Append(h.lists, tags)
      objs == Append(h.objs, [id |-> id, title |-> title,
                              tags |-> Len(lists), rating |-> rating])
  IN [heap |-> [objs |-> objs, lists |-> lists], ref |-> Len(objs)]

\* faulty variant: copy.copy, a new Item object sharing the tag list
copy_copy(h, original) ==
  LET objs == Append(h.objs, h.objs[original])
  IN [heap |-> [h EXCEPT !.objs = objs], ref |-> Len(objs)]

\* copy.deepcopy(original): a new Item object with a new tag list
copy_deepcopy(h, original) ==
  alloc_item(h, h.objs[original].id, h.objs[original].title,
             h.lists[h.objs[original].tags], h.objs[original].rating)

\* Memento(item, operation_type) on the heap; origin and asof are not fields
\* of the object: they note the record the snapshot was taken of and its
\* state at that moment
Memento_ref(h, item, operation_type) ==
  LET copied == copy_deepcopy(h, item)
  IN [heap |-> copied.heap,
      memento |-> [saved_item |-> copied.ref,
                   operation_type |-> operation_type,
                   origin |-> item, asof |-> Deref(h, item)]]

\* list.index: position of the first element that is the object or equals
\* it field by field, 0 if none
index_ref(h, refs, item) ==
  IF \E i \in DOMAIN refs : refs[i] = item \/ Deref(h, refs[i]) = Deref(h, item)
    THEN CHOOSE i \in DOMAIN refs :
           /\ refs[i] = item \/ Deref(h, refs[i]) = Deref(h, item)
           /\ \A j \in 1..(i - 1) :
                refs[j] # item /\ Deref(h, refs[j]) # Deref(h, item)
    ELSE 0

\* the service on the heap: self is [heap, items, undo_stack]
delete_item_ref(self, item) ==
  LET index == index_ref(self.heap, self.items, item)
      made == Memento_ref(self.heap, item, "DELETE")
  IN IF index = 0
       THEN [result |-> FALSE, self |-> self]
       ELSE [result |-> TRUE,
             self |-> [heap |-> made.heap,
                       items |-> RemoveAt(self.items, index),
                       undo_stack |->
                         push_memento(self.undo_stack, made.memento)]]

update_item_ref(self, old_item, new_item) ==
  LET index == index_ref(self.heap, self.items, old_item)
      made == Memento_ref(self.heap, old_item, "EDIT")
  IN IF index = 0
       THEN [result |-> FALSE, self |-> self]
       ELSE [result |-> TRUE,
             self |-> [heap |-> made.heap,
                       items |-> [self.items EXCEPT ![index] = new_item],
                       undo_stack |->
                         push_memento(self.undo_stack, made.memento)]]

\* position of the first record of the collection with the given id, 0 if
\* none
first_with_id_ref(h, refs, id) ==
  IF \E i \in DOMAIN refs : h.objs[refs[i]].id = id
    THEN CHOOSE i \in DOMAIN refs :
           /\ h.objs[refs[i]].id = id
           /\ \A j \in 1..(i - 1) : h.objs[refs[j]].id # id
    ELSE 0

\* undo on the heap; at is the position of the record put back, 0 if none
undo_ref(self) ==
  IF self.undo_stack = <<>>
    THEN [result |-> FALSE, at |-> 0, self |-> self]
    ELSE LET memento == self.undo_stack[Len(self.undo_stack)]
             popped == [self EXCEPT !.undo_stack =
                          SubSeq(@, 1, Len(self.undo_stack) - 1)]
             saved_item == memento.saved_item
         IN CASE memento.operation_type = "DELETE" ->
                   [result |-> TRUE, at |-> Len(self.items) + 1,
                    self |-> [popped EXCEPT !.items = Append(@, saved_item)]]
              [] memento.operation_type = "EDIT" ->
                   LET i == first_with_id_ref(self.heap, self.items,
                                              self.heap.objs[saved_item].id)
                   IN IF i # 0
                        THEN [result |-> TRUE, at |-> i,
                              self |-> [popped EXCEPT !.items[i] = saved_item]]
                        ELSE [result |-> FALSE, at |-> 0, self |-> popped]
              [] OTHER -> [result |-> FALSE, at |-> 0, self |-> popped]

\* item.title = title on the object
set_title_ref(h, item, title) == [h EXCEPT !.objs[item].title = title]

\* item.set_rating(value) on the object
set_rating_ref(h, item, value) ==
  [h EXCEPT !.objs[item].rating = set_rating(Deref(h, item), value).rating]

\* item.add_tag(tag): the append is to the list object
add_tag_ref(h, item, tag) ==
  [h EXCEPT !.lists[h.objs[item].tags] = add_tag(Deref(h, item), tag).tags]

\* item.remove_tag(tag): the removal is from the list object
remove_tag_ref(h, item, tag) ==
  [h EXCEPT !.lists[h.objs[item].tags] =
              remove_tag(Deref(h, item), tag).item.tags]

(***************************************************************************)
(* heapq, Task and the task queue                                          *)
(***************************************************************************)
Task(item_id, priority, description) ==
  [item_id |-> item_id, priority |-> priority, deadline |-> 0,
   description |-> description]

\* Task.set_priority: a value below 1 raises ValueError and changes nothing
set_priority(self, value) ==
  IF value < 1
    THEN [raised |-> "ValueError", task |-> self]
    ELSE [raised |-> "no", task |-> [self EXCEPT !.priority = value]]

\* faulty variant: the lower priority is the smaller element of the heap
task_lt_ascending(self, other) == self.priority < other.priority

\* Task.__lt__: the higher priority is the smaller element of the heap
task_lt(self, other) == self.priority > other.priority

\* faulty variant: the equality the dataclass would generate, field by field
task_eq_dataclass(self, other) == self = other

\* Task.__eq__
task_eq(self, other) == self.priority = other.priority

\* object.__ne__: the negation of __eq__
task_ne(self, other) == ~task_eq(self, other)

\* what functools.total_ordering derives from __lt__ and __eq__
task_gt(self, other) == ~task_lt(self, other) /\ task_ne(self, other)

task_le(self, other) == task_lt(self, other) \/ task_eq(self, other)

task_ge(self, other) == ~task_lt(self, other)

\* faulty variant: the lower frequency is the smaller element of the heap
rank_lt_ascending(self, other) == self.frequency < other.frequency

\* ItemRank.__lt__: the higher frequency is the smaller element of the heap
rank_lt(self, other) == self.frequency > other.frequency

\* a < b as heapq evaluates it: the __lt__ of the class of a
lt(a, b) ==
  IF "frequency" \in DOMAIN a THEN rank_lt(a, b) ELSE task_lt(a, b)

(***************************************************************************)
(* sorted() and list.sort() on a short list: the leading run is found and  *)
(* reversed when it is strictly descending, then every later element is    *)
(* put in place by binary insertion.  Only < is asked of the elements.     *)
(***************************************************************************)
\* a < b for the elements of the given kind: tasks by Task.__lt__, elements
\* sorted by a key by the < of their keys
less(kind, a, b) ==
  IF kind = "Task" THEN task_lt(a, b) ELSE a.key < b.key

Reversed(a) == [i \in 1..Len(a) |-> a[Len(a) + 1 - i]]

\* the run is descending when the second element is less than the first
run_descending(a, kind) == Len(a) >= 2 /\ less(kind, a[2], a[1])

\* count_run: the length of the leading run
count_run(a, kind) ==
  LET goes(i) == IF run_descending(a, kind) THEN less(kind, a[i], a[i - 1])
                 ELSE ~less(kind, a[i], a[i - 1])
  IN IF Len(a) < 2
       THEN Len(a)
       ELSE CHOOSE k \in 2..Len(a) :
              /\ \A i \in 2..k : goes(i)
              /\ k = Len(a) \/ ~goes(k + 1)

\* the place of pivot among the sorted elements a[l+1..r]
RECURSIVE bisect(_, _, _, _, _)
bisect(a, pivot, l, r, kind) ==
  IF l < r
    THEN LET p == (l + r) \div 2
         IN IF less(kind, pivot, a[p + 1])
              THEN bisect(a, pivot, l, p, kind)
              ELSE bisect(a, pivot, p + 1, r, kind)
    ELSE l

\* binarysort: a[1..start] is sorted, the elements after it are inserted
RECURSIVE binarysort(_, _, _)
binarysort(a, start, kind) ==
  IF start >= Len(a)
    THEN a
    ELSE LET pivot == a[start + 1]
             l == bisect(a, pivot, 0, start, kind)
             placed == [i \in 1..Len(a) |->
                          IF i <= l THEN a[i]
                          ELSE IF i = l + 1 THEN pivot
                          ELSE IF i <= start + 1 THEN a[i - 1]
                          ELSE a[i]]
         IN binarysort(placed, start + 1, kind)

list_sort(a, kind) ==
  LET n == count_run(a, kind)
      run == IF run_descending(a, kind)
               THEN Reversed(SubSeq(a, 1, n)) \o SubSeq(a, n + 1, Len(a))
               ELSE a
  IN binarysort(run, n, kind)

\* sorted(tasks): the elements compared by Task.__lt__
sorted(tasks) == list_sort(tasks, "Task")

\* heapq._siftdown(heap, startpos, pos), positions counted from 0
RECURSIVE siftdown_loop(_, _, _, _)
siftdown_loop(heap, startpos, pos, newitem) ==
  IF pos > startpos
    THEN LET parentpos == (pos - 1) \div 2
             parent == heap[parentpos + 1]
         IN IF lt(newitem, parent)
              THEN siftdown_loop([heap EXCEPT ![pos + 1] = parent],
                                 startpos, parentpos, newitem)
              ELSE [heap EXCEPT ![pos + 1] = newitem]
    ELSE [heap EXCEPT ![pos + 1] = newitem]

siftdown(heap, startpos, pos) ==
  siftdown_loop(heap, startpos, pos, heap[pos + 1])

\* heapq._siftup(heap, pos), positions counted from 0
RECURSIVE siftup_loop(_, _, _, _)
siftup_loop(heap, startpos, pos, newitem) ==
  LET endpos == Len(heap)
      leftpos == 2 * pos + 1
  IN IF leftpos < endpos
       THEN LET rightpos == leftpos + 1
                childpos ==
                  IF rightpos < endpos
                     /\ ~lt(heap[leftpos + 1], heap[rightpos + 1])
                    THEN rightpos ELSE leftpos
            IN siftup_loop([heap EXCEPT ![pos + 1] = heap[childpos + 1]],
                           startpos, childpos, newitem)
       ELSE siftdown([heap EXCEPT ![pos + 1] = newitem], startpos, pos)

siftup(heap, pos) == siftup_loop(heap, pos, pos, heap[pos + 1])

heappush(heap, item) == siftdown(Append(heap, item), 0, Len(heap))

\* heapq.heappop on a non-empty heap: the item returned and the heap left
heappop(heap) ==
  LET lastelt == heap[Len(heap)]
      rest == SubSeq(heap, 1, Len(heap) - 1)
  IN IF rest # <<>>
       THEN [item |-> rest[1],
             heap |-> siftup([rest EXCEPT ![1] = lastelt], 0)]
       ELSE [item |-> lastelt, heap |-> rest]

\* heapq.heapify
RECURSIVE heapify_loop(_, _)
heapify_loop(x, i) ==
  IF i < 0 THEN x ELSE heapify_loop(siftup(x, i), i - 1)

heapify(x) == heapify_loop(x, (Len(x) \div 2) - 1)

add_task(queue, task) == heappush(queue, task)

\* the task returned (the empty sequence stands for None) and the queue left
get_next_task(queue) ==
  IF queue = <<>>
    THEN [task |-> <<>>, task_queue |-> queue]
    ELSE LET p == heappop(queue)
         IN [task |-> <<p.item>>, task_queue |-> p.heap]

\* faulty variant: the last element of the list is shown
peek_last(queue) ==
  IF queue = <<>> THEN <<>> ELSE <<queue[Len(queue)]>>

peek_next_task(queue) ==
  IF queue = <<>> THEN <<>> ELSE <<queue[1]>>

(***************************************************************************)
(* Recently viewed: deque(maxlen = MAX_RECENT_ITEMS)                       *)
(***************************************************************************)
\* faulty variant: a list without a maximum length
view_item_unbounded(viewed, item) == Append(viewed, item)

view_item(viewed, item) ==
  IF Len(viewed) = MAX_RECENT_ITEMS
    THEN Append(Tail(viewed), item)
    ELSE Append(viewed, item)

get_last_viewed(viewed) ==
  IF viewed = <<>>
    THEN [item |-> <<>>, recently_viewed |-> viewed]
    ELSE [item |-> <<viewed[Len(viewed)]>>,
          recently_viewed |-> SubSeq(viewed, 1, Len(viewed) - 1)]

\* list[-count:]: the last count elements, and the whole list when count is
\* 0 (-0 is 0) or not less than the length
slice_last(list, count) ==
  IF count = 0 \/ count >= Len(list) THEN list ELSE LastN(list, count)

\* list(reversed(list(self.recently_viewed)[-count:]))
get_recent_history(viewed, count) == Reversed(slice_last(viewed, count))

(***************************************************************************)
(* SearchService                                                           *)
(***************************************************************************)
\* faulty variant: the keyword's set is replaced, not added to
index_add_overwrite(index, key, item_id) ==
  IF key \in DOMAIN index
    THEN [index EXCEPT ![key] = {item_id}]
    ELSE index @@ (key :> {item_id})

\* self.keyword_to_items[key].add(item_id) on a defaultdict(set)
index_add(index, key, item_id) ==
  IF key \in DOMAIN index
    THEN [index EXCEPT ![key] = @ \cup {item_id}]
    ELSE index @@ (key :> {item_id})

\* the loop over the title words of one item
RECURSIVE index_words(_, _, _)
index_words(index, words, item_id) ==
  IF words = <<>>
    THEN index
    ELSE index_words(IF Head(words) # <<>>
                       THEN index_add(index, Head(words), item_id)
                       ELSE index,
                     Tail(words), item_id)

\* the loop over the tags of one item
RECURSIVE index_tags(_, _, _)
index_tags(state, tags, item_id) ==
  IF tags = <<>>
    THEN state
    ELSE LET tag_lower == lower(Head(tags))
             freq == state.tag_frequency
         IN index_tags(
              [keyword_to_items |->
                 index_add(state.keyword_to_items, tag_lower, item_id),
               tag_frequency |->
                 IF tag_lower \in DOMAIN freq
                   THEN [freq EXCEPT ![tag_lower] = @ + 1]
                   ELSE freq @@ (tag_lower :> dict_get(freq, tag_lower, 0) + 1)],
              Tail(tags), item_id)

\* the loop over the items
RECURSIVE build_loop(_, _)
build_loop(state, its) ==
  IF its = <<>>
    THEN state
    ELSE LET item == Head(its)
             words == split(lower(item.title))
             titled ==
               [state EXCEPT !.keyword_to_items =
                  index_words(@, words, item.id)]
         IN build_loop(index_tags(titled, item.tags, item.id), Tail(its))

\* dict.clear()
clear(d) == [k \in {} |-> d[k]]

\* faulty variant: the items are indexed on top of the existing indexes
build_index_uncleared(self, its) == build_loop(self, its)

\* both indexes of self are cleared, then filled from the items
build_index(self, its) ==
  build_loop([keyword_to_items |-> clear(self.keyword_to_items),
              tag_frequency |-> clear(self.tag_frequency)],
             its)

(***************************************************************************)
(* The order of the keys of the two dicts: a dict lists its keys in the    *)
(* order of their first insertion since it was cleared.                    *)
(***************************************************************************)
RECURSIVE insert_keys(_, _)
insert_keys(keys, new) ==
  IF new = <<>>
    THEN keys
    ELSE insert_keys(IF Head(new) \in Range(keys) THEN keys
                     ELSE Append(keys, Head(new)),
                     Tail(new))

NonEmpty(word) == word # <<>>

\* the keys one item puts into keyword_to_items, in the order of the loop
item_keywords(item) ==
  SelectSeq(split(lower(item.title)), NonEmpty) \o lowered(item.tags)

\* list(self.keyword_to_items.keys()) after build_index(its)
RECURSIVE keyword_keys(_)
keyword_keys(its) ==
  IF its = <<>>
    THEN <<>>
    ELSE insert_keys(keyword_keys(SubSeq(its, 1, Len(its) - 1)),
                     item_keywords(its[Len(its)]))

\* list(self.tag_frequency.keys()) after build_index(its)
RECURSIVE tag_keys(_)
tag_keys(its) ==
  IF its = <<>>
    THEN <<>>
    ELSE insert_keys(tag_keys(SubSeq(its, 1, Len(its) - 1)),
                     lowered(its[Len(its)].tags))

\* list.sort(key=..., reverse=True): the list is reversed, sorted and
\* reversed again, so that equal keys keep their order
list_sort_reverse(a, kind) == Reversed(list_sort(Reversed(a), kind))

\* list[:count]
slice_first(list, count) ==
  IF count >= 0
    THEN SubSeq(list, 1, Min(count, Len(list)))
    ELSE SubSeq(list, 1, Max(0, Len(list) + count))

\* faulty variant: the pairs come out in ascending frequency
get_unpopular_tags(frequency, keys, count) ==
  LET pairs == [i \in DOMAIN keys |->
                  [key |-> frequency[keys[i]],
                   value |-> <<keys[i], frequency[keys[i]]>>]]
      sorted_tags == list_sort(pairs, "key")
  IN slice_first([i \in DOMAIN sorted_tags |-> sorted_tags[i].value], count)

\* get_popular_tags(count): frequency is tag_frequency, keys its keys in order
get_popular_tags(frequency, keys, count) ==
  LET pairs == [i \in DOMAIN keys |->
                  [key |-> frequency[keys[i]],
                   value |-> <<keys[i], frequency[keys[i]]>>]]
      sorted_tags == list_sort_reverse(pairs, "key")
  IN slice_first([i \in DOMAIN sorted_tags |-> sorted_tags[i].value], count)

\* the dict a caller got from get_keyword_index or get_tag_frequency: its
\* keys, the keys whose value is still the set object the engine's own dict
\* holds under that key (shared), the values of the other keys (own), and the
\* number of changes the caller made to it
NoCopy ==
  [kind |-> "none", keys |-> {}, shared |-> {}, own |-> EmptyDict, edits |-> 0]

\* dict(self.keyword_to_items): a new dict holding the same set objects
get_keyword_index(index) ==
  [kind |-> "keyword_index", keys |-> DOMAIN index, shared |-> DOMAIN index,
   own |-> EmptyDict, edits |-> 0]

\* self.tag_frequency.copy(): a new dict holding the same (immutable) counts
get_tag_frequency(frequency) ==
  [kind |-> "tag_frequency", keys |-> DOMAIN frequency, shared |-> {},
   own |-> frequency, edits |-> 0]

\* copy[key], read through the engine's dict for a shared set
copy_value(copy, index, key) ==
  IF key \in copy.shared THEN index[key] ELSE copy.own[key]

\* copy[key] = value: the key now holds an object of the caller's own
copy_setitem(copy, key, value) ==
  [copy EXCEPT !.keys = @ \cup {key}, !.shared = @ \ {key},
               !.own = [k \in (DOMAIN @) \cup {key} |->
                          IF k = key THEN value ELSE @[k]],
               !.edits = @ + 1]

\* del copy[key]
copy_delitem(copy, key) ==
  [copy EXCEPT !.keys = @ \ {key}, !.shared = @ \ {key},
               !.own = [k \in (DOMAIN @) \ {key} |-> @[k]],
               !.edits = @ + 1]

\* self.keyword_to_items.clear() drops the engine's references: the sets the
\* caller's dict shared with it live on in the caller's dict alone
detached(copy, index) ==
  [copy EXCEPT !.shared = {},
               !.own = [k \in copy.keys |-> copy_value(copy, index, k)]]

\* keyword.startswith(prefix)
startswith(keyword, prefix) ==
  Len(prefix) <= Len(keyword) /\ SubSeq(keyword, 1, Len(prefix)) = prefix

\* suggest_keywords(prefix, max_results): index is keyword_to_items, keys its
\* keys in order
suggest_keywords(index, keys, prefix, max_results) ==
  LET prefix_lower == strip(lower(prefix))
      Matches(keyword) == startswith(keyword, prefix_lower)
      matches == SelectSeq(keys, Matches)
      keyed == [i \in DOMAIN matches |->
                  [key |-> Cardinality(index[matches[i]]),
                   value |-> matches[i]]]
      ordered == list_sort_reverse(keyed, "key")
  IN IF prefix_lower = <<>>
       THEN <<>>
       ELSE slice_first([i \in DOMAIN ordered |-> ordered[i].value],
                        max_results)

\* the loop over the tags of _calculate_frequency
RECURSIVE frequency_loop(_, _, _, _)
frequency_loop(freq, frequency, tags, query) ==
  IF tags = <<>>
    THEN freq
    ELSE LET tag_lower == lower(Head(tags))
         IN frequency_loop(
              IF contains(query, tag_lower)
                THEN freq + dict_get(frequency, tag_lower, 1) ELSE freq,
              frequency, Tail(tags), query)

calculate_frequency(frequency, item, query) ==
  frequency_loop(0, frequency, item.tags, query)

ItemRank(item_id, frequency) == [item_id |-> item_id, frequency |-> frequency]

\* the ranking loop over the matched ids, in the order the set yields them
RECURSIVE rank_loop(_, _, _, _)
rank_loop(ids, item_map, frequency, query) ==
  IF ids = <<>>
    THEN <<>>
    ELSE LET item_id == Head(ids)
             rest == rank_loop(Tail(ids), item_map, frequency, query)
         IN IF item_id \in DOMAIN item_map
              THEN <<ItemRank(item_id,
                              calculate_frequency(frequency,
                                                  item_map[item_id], query))>>
                   \o rest
              ELSE rest

\* the loop popping the heap of ranks into the result list
RECURSIVE pop_all(_)
pop_all(heap) ==
  IF heap = <<>>
    THEN <<>>
    ELSE LET p == heappop(heap)
         IN <<p.item.item_id>> \o pop_all(p.heap)

\* the orders in which a set can be iterated
Orders(S) ==
  {o \in [1..Cardinality(S) -> S] : \A i, j \in DOMAIN o : i # j => o[i] # o[j]}

\* faulty variant: the query is lowercased but not trimmed
query_lower_unstripped(query) == lower(query)

\* query.lower().strip()
query_lower_of(query) == strip(lower(query))

\* faulty variant: the query is looked up in the case it was given in
matched_ids_cased(index, query) == dict_get(index, strip(query), {})

\* faulty variant: every keyword containing the query matches
matched_ids_substring(index, query) ==
  UNION {index[k] : k \in {x \in DOMAIN index :
                              contains(query_lower_of(query), x)}}

\* self.keyword_to_items.get(query_lower, set())
matched_ids_of(index, query) == dict_get(index, query_lower_of(query), {})

\* faulty variant: the empty query is looked up like any other
search_unguarded(index, frequency, query, item_map, order) ==
  pop_all(heapify(rank_loop(order, item_map, frequency,
                            query_lower_of(query))))

\* search, given the order in which matched_ids is iterated
search(index, frequency, query, item_map, order) ==
  LET query_lower == query_lower_of(query)
  IN IF query_lower = <<>>
       THEN <<>>
       ELSE IF matched_ids_of(index, query) = {}
              THEN <<>>
              ELSE pop_all(heapify(rank_loop(order, item_map, frequency,
                                             query_lower)))

(***************************************************************************)
(* LibraryRepository.  A file is a sequence of bytes (0..255).             *)
(***************************************************************************)
LibraryData(its) ==
  [items |-> its, tasks |-> <<>>, keyword_index |-> EmptyDict,
   tag_frequency |-> EmptyDict]

\* struct.pack('>I', version): four bytes, the most significant first
pack(version) ==
  <<(version \div 16777216) % 256, (version \div 65536) % 256,
    (version \div 256) % 256, version % 256>>

\* struct.unpack('>I', version_bytes)[0]
unpack(version_bytes) ==
  version_bytes[1] * 16777216 + version_bytes[2] * 65536
    + version_bytes[3] * 256 + version_bytes[4]

\* the opcodes of the pickle stream
PROTO == 128

FRAME == 149

STOP == 46

\* the records a pickled library of k records holds
StoredItems(k) == [i \in 1..k |-> Item("id1", 1)]

\* pickle.dump(data, protocol=HIGHEST_PROTOCOL): the protocol header, one
\* frame with its length, the object (here: the number of its records), STOP
\* a task in the frame: its priority and the number of its description
dump_task(task) ==
  <<task.priority, IF task.description = "d1" THEN 1 ELSE 2>>

RECURSIVE dump_tasks(_)
dump_tasks(tasks) ==
  IF tasks = <<>> THEN <<>> ELSE dump_task(Head(tasks)) \o dump_tasks(Tail(tasks))

RECURSIVE load_tasks(_)
load_tasks(bytes) ==
  IF Len(bytes) < 2
    THEN <<>>
    ELSE <<Task("id1", bytes[1], IF bytes[2] = 1 THEN "d1" ELSE "d2")>>
           \o load_tasks(SubSeq(bytes, 3, Len(bytes)))

pickle_dump(data) ==
  <<PROTO, 5, FRAME, 2 + 2 * Len(data.tasks), Len(data.items)>>
    \o dump_tasks(data.tasks) \o <<STOP>>

\* pickle.load on the rest of the file: the object, or the exception raised.
\* The unpickler raises EOFError when the input ends where an opcode is to
\* be read, and UnpicklingError when it ends inside an opcode's argument or
\* inside a frame.
pickle_load(bytes) ==
  IF bytes = <<>>
    THEN [raised |-> "EOFError"]
  ELSE IF bytes[1] # PROTO \/ Len(bytes) = 1
    THEN [raised |-> "UnpicklingError"]
  ELSE IF Len(bytes) = 2
    THEN [raised |-> "EOFError"]
  ELSE IF bytes[3] # FRAME \/ Len(bytes) = 3 \/ Len(bytes) < 4 + bytes[4]
    THEN [raised |-> "UnpicklingError"]
  ELSE [raised |-> "no",
        data |-> [LibraryData(StoredItems(bytes[5])) EXCEPT
                    !.tasks = load_tasks(SubSeq(bytes, 6, 3 + bytes[4]))]]

\* f.read(n) at position pos (counted from 0)
read(bytes, pos, n) == SubSeq(bytes, pos + 1, Min(pos + n, Len(bytes)))

\* the bytes save_library writes
save_library(data) == MAGIC_NUMBER \o pack(FILE_VERSION) \o pickle_dump(data)

IOError == [outcome |-> "IOError", data |-> LibraryData(<<>>)]

Returned(data) == [outcome |-> "return", data |-> data]

load_library(file) ==
  IF ~file.exists
    THEN Returned(LibraryData(<<>>))
    ELSE LET magic == read(file.bytes, 0, 3)
             version_bytes == read(file.bytes, 3, 4)
         IN IF magic # MAGIC_NUMBER
              THEN IOError
            ELSE IF Len(version_bytes) < 4
              THEN IOError
            ELSE IF unpack(version_bytes) > FILE_VERSION
              THEN IOError
            ELSE LET loaded ==
                       pickle_load(read(file.bytes, 7, Len(file.bytes)))
                 IN CASE loaded.raised = "no" -> Returned(loaded.data)
                      [] loaded.raised = "EOFError" ->
                           Returned(LibraryData(<<>>))
                      [] OTHER -> IOError

(***************************************************************************)
(* A session: the services of a running application.  get_data collects    *)
(* what is saved when the application quits, load_data takes what was      *)
(* loaded when it starts.                                                  *)
(***************************************************************************)
\* MainController.get_data: the fields of a new LibraryData are assigned
get_data(session) ==
  [items |-> session.items, tasks |-> session.task_queue,
   keyword_index |-> session.keyword_to_items,
   tag_frequency |-> session.tag_frequency]

\* MainController.load_data: the records of the data replace those of the
\* library service and the index is rebuilt from them
load_data(session, data) ==
  LET built == build_index(session, data.items)
  IN [session EXCEPT !.items = data.items,
                     !.keyword_to_items = built.keyword_to_items,
                     !.tag_frequency = built.tag_frequency]

\* the services of a newly started application
new_session ==
  [items |-> <<>>, task_queue |-> <<>>, keyword_to_items |-> EmptyDict,
   tag_frequency |-> EmptyDict]

\* StudyVaultApp._load_data: what was loaded goes to load_data; an IOError
\* leaves the new session as it is
start_session(file) ==
  LET loaded == load_library(file)
  IN IF loaded.outcome = "return"
       THEN load_data(new_session, loaded.data)
       ELSE new_session

(***************************************************************************)
(* The last library call: its name, arguments and return value, and the    *)
(* name and return value of the call before it.                            *)
(***************************************************************************)
Call(op, result) ==
  [op |-> op, result |-> result,
   prev_op |-> ret.op, prev_result |-> ret.result]

\* the snapshots pushed and not yet popped by undo, evicted ones included
pushed_after(result, memento) ==
  IF result THEN Append(pushed, memento) ELSE pushed

AddItem ==
  /\ Len(items) < MaxItems
  /\ \E item \in LibraryItems :
       /\ items' = add_item(items, item)
       /\ ret' = Call("add_item", TRUE)
  /\ UNCHANGED <<undo_stack, clock, pushes_left, pushed,
                 task_queue, recently_viewed, tret, added, returned, drained,
                 svars, rvars, ivars, avars, pvars, mvars>>

\* faulty variant: the tasks of the deleted record leave the queue with it
DeleteItemCascading ==
  /\ pushes_left > 0
  /\ \E item \in LibraryItems :
       LET r == delete_item(items, undo_stack, clock + 1, item)
           kept(t) == t.item_id # item.id
       IN /\ items' = r.items
          /\ undo_stack' = r.undo_stack
          /\ clock' = IF r.result THEN clock + 1 ELSE clock
          /\ pushes_left' = IF r.result THEN pushes_left - 1 ELSE pushes_left
          /\ pushed' = pushed_after(r.result, Memento(item, "DELETE", clock + 1))
          /\ ret' = Call("delete_item", r.result)
          /\ task_queue' = IF r.result THEN SelectSeq(task_queue, kept)
                           ELSE task_queue
  /\ UNCHANGED <<recently_viewed, tret, added, returned, drained,
                 svars, rvars, ivars, avars, pvars, mvars>>

DeleteItem ==
  /\ pushes_left > 0
  /\ \E item \in LibraryItems :
       LET r == delete_item(items, undo_stack, clock + 1, item)
       IN /\ items' = r.items
          /\ undo_stack' = r.undo_stack
          /\ clock' = IF r.result THEN clock + 1 ELSE clock
          /\ pushes_left' = IF r.result THEN pushes_left - 1 ELSE pushes_left
          /\ pushed' = pushed_after(r.result, Memento(item, "DELETE", clock + 1))
          /\ ret' = Call("delete_item", r.result)
  /\ UNCHANGED <<task_queue, recently_viewed, tret, added, returned, drained,
                 svars, rvars, ivars, avars, pvars, mvars>>

UpdateItem ==
  /\ pushes_left > 0
  /\ \E old_item \in LibraryItems, new_item \in LibraryItems :
       LET r == update_item(items, undo_stack, clock + 1, old_item, new_item)
       IN /\ items' = r.items
          /\ undo_stack' = r.undo_stack
          /\ clock' = IF r.result THEN clock + 1 ELSE clock
          /\ pushes_left' = IF r.result THEN pushes_left - 1 ELSE pushes_left
          /\ pushed' = pushed_after(r.result, Memento(old_item, "EDIT", clock + 1))
          /\ ret' = Call("update_item", r.result)
  /\ UNCHANGED <<task_queue, recently_viewed, tret, added, returned, drained,
                 svars, rvars, ivars, avars, pvars, mvars>>

Undo ==
  /\ LET r == undo(items, undo_stack)
     IN /\ Len(r.items) <= MaxItems
        /\ items' = r.items
        /\ undo_stack' = r.undo_stack
        /\ ret' = Call("undo", r.result)
  /\ pushed' = IF undo_stack = <<>> THEN pushed
               ELSE SubSeq(pushed, 1, Len(pushed) - 1)
  /\ UNCHANGED <<clock, pushes_left, task_queue, recently_viewed,
                 tret, added, returned, drained, svars, rvars, ivars, avars, pvars, mvars>>

(***************************************************************************)
(* Task and recently-viewed calls.  added: every task passed to add_task;  *)
(* returned: every task get_next_task has returned; drained: the tasks     *)
(* returned since the last add_task, in the order returned.                *)
(***************************************************************************)
TaskDescriptions == {"d1", "d2"}

\* the tasks add_task is called with
Tasks == {Task("id1", p, d) : p \in 1..MaxPriority, d \in TaskDescriptions}

\* the tasks and the viewed records used next to the record operations
FewTasks == {Task("id1", 2, "d1")}

FewItems == {Item("id1", 1)}

libvars == <<items, undo_stack, clock, pushes_left, pushed, ret>>

AddTask(cap, tasks) ==
  /\ Len(task_queue) < cap
  /\ \E task \in tasks :
       /\ task \notin added
       /\ task_queue' = add_task(task_queue, task)
       /\ added' = added \cup {task}
  /\ tret' = [op |-> "add_task", task |-> <<>>]
  /\ drained' = <<>>
  /\ UNCHANGED <<libvars, recently_viewed, returned, svars, rvars, ivars, avars, pvars, mvars>>

GetNextTask ==
  /\ LET r == get_next_task(task_queue)
     IN /\ task_queue' = r.task_queue
        /\ tret' = [op |-> "get_next_task", task |-> r.task]
        /\ returned' = returned \cup Range(r.task)
        /\ drained' = drained \o r.task
  /\ UNCHANGED <<libvars, recently_viewed, added, svars, rvars, ivars, avars, pvars, mvars>>

PeekNextTask ==
  /\ tret' = [op |-> "peek_next_task", task |-> peek_next_task(task_queue)]
  /\ UNCHANGED <<libvars, task_queue, recently_viewed, added, returned,
                 drained, svars, rvars, ivars, avars, pvars, mvars>>

\* set_priority on a queued task: get_all_tasks and peek_next_task hand out
\* the queued objects themselves, so the list holds the task as changed, at
\* the position it had
SetPriority ==
  /\ \E i \in DOMAIN task_queue, value \in 0..MaxPriority :
       LET r == set_priority(task_queue[i], value)
       IN /\ task_queue' = [task_queue EXCEPT ![i] = r.task]
          /\ tret' = [op |-> "set_priority", task |-> <<r.task>>]
  /\ UNCHANGED <<libvars, recently_viewed, added, returned, drained,
                 svars, rvars, ivars, avars, pvars, mvars>>

ViewItem ==
  /\ Len(recently_viewed) < MaxViewed
  /\ \E item \in FewItems :
       recently_viewed' = view_item(recently_viewed, item)
  /\ UNCHANGED <<libvars, task_queue, tret, added, returned, drained,
                 svars, rvars, ivars, avars, pvars, mvars>>

(***************************************************************************)
(* Search calls.  indexed: the collection last passed to build_index;       *)
(* sret.prior: the keywords the index held when build_index was called.    *)
(***************************************************************************)
\* the records build_index and the lookup are given
SearchItems ==
  {Item("id1", 2), Item("id1", 4), Item("id2", 3), Item("id2", 4)}

Collections ==
  UNION {[1..n -> SearchItems] : n \in 0..MaxIndexed}

\* {item.id: item for item in its}
RECURSIVE map_of(_)
map_of(its) ==
  IF its = <<>>
    THEN EmptyDict
    ELSE LET front == map_of(SubSeq(its, 1, Len(its) - 1))
             item == its[Len(its)]
         IN [id \in DOMAIN front \cup {item.id} |->
               IF id = item.id THEN item ELSE front[id]]

\* the lookups search is given: that of the indexed collection, that of its
\* first record alone, the empty one, and one of a record not indexed as such
Lookups ==
  {map_of(indexed), map_of(SubSeq(indexed, 1, Min(1, Len(indexed)))),
   EmptyDict,
   map_of(<<Item("id1", 1)>>)}

Queries ==
  {<<>>, <<" ">>, <<"a">>, <<"A">>, <<"b">>, <<"c">>, <<"a", "b">>,
   <<"a", " ", "b">>, <<"b", " ", "a">>, <<" ", "a", " ">>,
   <<"a", " ", "b", " ">>}

dynvars ==
  <<items, undo_stack, clock, pushes_left, pushed, ret,
    task_queue, recently_viewed, tret, added, returned, drained>>

\* build_index; what earlier calls returned and what the index held before
\* is kept or forgotten
BuildIndexThen(keep) ==
  /\ \E its \in Collections :
       LET built == build_index([keyword_to_items |-> keyword_to_items,
                                 tag_frequency |-> tag_frequency], its)
       IN /\ keyword_to_items' = built.keyword_to_items
          /\ tag_frequency' = built.tag_frequency
          /\ indexed' = its
  /\ sret' = [op |-> "build_index", query |-> <<>>, item_map |-> EmptyDict,
              results |-> <<>>,
              prior |-> IF keep THEN DOMAIN keyword_to_items ELSE {}]
  /\ given' = given
  /\ out' = IF keep THEN out ELSE NoOut
  /\ UNCHANGED <<dynvars, rvars, ivars, avars, mvars>>

BuildIndex == BuildIndexThen(TRUE)

Reindex == BuildIndexThen(FALSE)

Search ==
  /\ \E query \in Queries, item_map \in Lookups :
       \E order \in Orders(matched_ids_of(keyword_to_items, query)) :
         sret' = [op |-> "search", query |-> query, item_map |-> item_map,
                  results |-> search(keyword_to_items, tag_frequency, query,
                                     item_map, order),
                  prior |-> {}]
  /\ UNCHANGED <<dynvars, keyword_to_items, tag_frequency, indexed, rvars, ivars, avars, pvars, mvars>>

(***************************************************************************)
(* MainController.handle_search on the collection of the library service   *)
(* and the indexes of the search service.                                  *)
(***************************************************************************)
\* [item_map[item_id] for item_id in result_ids if item_id in item_map]
RECURSIVE items_of(_, _)
items_of(result_ids, item_map) ==
  IF result_ids = <<>>
    THEN <<>>
    ELSE (IF Head(result_ids) \in DOMAIN item_map
            THEN <<item_map[Head(result_ids)]>> ELSE <<>>)
         \o items_of(Tail(result_ids), item_map)

\* the indexes handle_search leaves, for a text of the search field
searched_index(self, its, text) ==
  IF strip(text) = <<>> THEN self ELSE build_index(self, its)

\* the records handle_search puts in the table, given the order in which the
\* set of matched ids is iterated
handle_search(self, its, text, order) ==
  LET query == strip(text)
      built == build_index(self, its)
      item_map == map_of(its)
  IN IF query = <<>>
       THEN its
       ELSE items_of(search(built.keyword_to_items, built.tag_frequency,
                            query, item_map, order),
                     item_map)

\* the texts of the search field: a title word or a tag of a record of the
\* collection, typed as it is stored, or another text
SearchTexts ==
  UNION {Range(split(items[i].title)) \cup Range(items[i].tags) :
           i \in DOMAIN items}
  \cup {<<>>, <<"b">>, <<"z">>}

HandleSearch ==
  /\ \E text \in SearchTexts :
       LET self == [keyword_to_items |-> keyword_to_items,
                    tag_frequency |-> tag_frequency]
           after == searched_index(self, items, text)
       IN \E order \in Orders(matched_ids_of(after.keyword_to_items, text)) :
            /\ keyword_to_items' = after.keyword_to_items
            /\ tag_frequency' = after.tag_frequency
            /\ indexed' = IF strip(text) = <<>> THEN indexed ELSE items
            /\ sret' = [op |-> "handle_search", query |-> text,
                        item_map |-> map_of(items),
                        results |-> handle_search(self, items, text, order),
                        prior |-> Range(items)]
  /\ UNCHANGED <<dynvars, rvars, ivars, avars, pvars, mvars>>

\* the prefixes suggest_keywords is given
Prefixes ==
  {<<>>, <<" ">>, <<"a">>, <<"A", " ">>, <<"b">>, <<"a", "b">>, <<"c">>}

nonsuggest ==
  <<dynvars, svars, rvars, ivars, avars, given, mvars>>

PopularTags ==
  /\ \E count \in 0..MaxCount :
       out' = [op |-> "get_popular_tags", count |-> count,
               prefix |-> <<>>, indexed |-> indexed,
               index |-> keyword_to_items, frequency |-> tag_frequency,
               value |-> get_popular_tags(tag_frequency, tag_keys(indexed),
                                          count)]
  /\ UNCHANGED nonsuggest

SuggestKeywords ==
  /\ \E prefix \in Prefixes, max_results \in 0..MaxCount :
       out' = [op |-> "suggest_keywords", count |-> max_results,
               prefix |-> prefix, indexed |-> indexed,
               index |-> keyword_to_items, frequency |-> tag_frequency,
               value |-> suggest_keywords(keyword_to_items,
                                          keyword_keys(indexed), prefix,
                                          max_results)]
  /\ UNCHANGED nonsuggest

\* the ids and keys a caller writes into a returned dict
CopyIds == {"id1"}

CopyKeys == {<<"z">>}

noncopy ==
  <<dynvars, sret, rvars, ivars, avars, mvars>>

GetKeywordIndex ==
  /\ given' = get_keyword_index(keyword_to_items)
  /\ out' = [op |-> "get_keyword_index"]
  /\ UNCHANGED <<noncopy, keyword_to_items, tag_frequency, indexed, mvars>>

GetTagFrequency ==
  /\ given' = get_tag_frequency(tag_frequency)
  /\ out' = [op |-> "get_tag_frequency"]
  /\ UNCHANGED <<noncopy, keyword_to_items, tag_frequency, indexed, mvars>>

\* the caller changes the set under a key of the returned keyword index:
\* copy[key].add(id) or copy[key].discard(id)
CopySetEdit ==
  /\ given.kind = "keyword_index"
  /\ given.edits < MaxEdits
  /\ \E key \in given.keys, id \in CopyIds, adding \in BOOLEAN :
       LET old == copy_value(given, keyword_to_items, key)
           new == IF adding THEN old \cup {id} ELSE old \ {id}
       IN IF key \in given.shared
            THEN /\ keyword_to_items' = [keyword_to_items EXCEPT ![key] = new]
                 /\ given' = [given EXCEPT !.edits = @ + 1]
            ELSE /\ keyword_to_items' = keyword_to_items
                 /\ given' = [given EXCEPT !.own[key] = new, !.edits = @ + 1]
  /\ out' = [op |-> "set_edit"]
  /\ UNCHANGED <<noncopy, tag_frequency, indexed, mvars>>

\* the caller changes the returned dict itself: copy[key] = value, del copy[key]
CopyDictEdit ==
  /\ given.kind \in {"keyword_index", "tag_frequency"}
  /\ given.edits < MaxEdits
  /\ \/ \E key \in given.keys \cup CopyKeys :
          given' = copy_setitem(given, key,
                                IF given.kind = "keyword_index"
                                  THEN {"id3"} ELSE MaxEdits)
     \/ \E key \in given.keys : given' = copy_delitem(given, key)
  /\ out' = [op |-> "dict_edit"]
  /\ UNCHANGED <<noncopy, keyword_to_items, tag_frequency, indexed, mvars>>

\* build_index while a caller holds a returned dict
CopyReindex ==
  /\ \E its \in {c \in Collections : Len(c) <= MaxCopied} :
       LET built == build_index([keyword_to_items |-> keyword_to_items,
                                 tag_frequency |-> tag_frequency], its)
       IN /\ keyword_to_items' = built.keyword_to_items
          /\ tag_frequency' = built.tag_frequency
          /\ indexed' = its
  /\ given' = detached(given, keyword_to_items)
  /\ out' = [op |-> "build_index"]
  /\ UNCHANGED noncopy

(***************************************************************************)
(* Repository calls, and what happens to the data file outside of them.    *)
(***************************************************************************)
nonrepo ==
  <<items, undo_stack, clock, pushes_left, pushed, ret,
    task_queue, recently_viewed, tret, added, returned, drained, svars,
    ivars, avars, pvars, mvars>>

Libraries == {LibraryData(StoredItems(k)) : k \in 0..MaxStored}

NoFile == [exists |-> FALSE, bytes |-> <<>>]

SaveLibrary ==
  /\ \E data \in Libraries :
       /\ data_file' = [exists |-> TRUE, bytes |-> save_library(data)]
       /\ written' = save_library(data)
  /\ lret' = [op |-> "save_library", result |-> Returned(LibraryData(<<>>))]
  /\ UNCHANGED nonrepo

\* a file of another program or of another version of this one is found
ForeignFile ==
  /\ \E magic \in {MAGIC_NUMBER, <<66, 65, 68>>}, version \in 0..MaxVersion,
        data \in Libraries :
       LET bytes == magic \o pack(version) \o pickle_dump(data)
       IN /\ data_file' = [exists |-> TRUE, bytes |-> bytes]
          /\ written' = bytes
  /\ lret' = [op |-> "none", result |-> Returned(LibraryData(<<>>))]
  /\ UNCHANGED nonrepo

\* the file loses its end
Truncate ==
  /\ data_file.exists
  /\ \E n \in 0..(Len(data_file.bytes) - 1) :
       data_file' = [data_file EXCEPT !.bytes = SubSeq(@, 1, n)]
  /\ lret' = [op |-> "none", result |-> Returned(LibraryData(<<>>))]
  /\ UNCHANGED <<nonrepo, written, mvars>>

DeleteLibrary ==
  /\ data_file.exists
  /\ data_file' = NoFile
  /\ written' = <<>>
  /\ lret' = [op |-> "delete_library", result |-> Returned(LibraryData(<<>>))]
  /\ UNCHANGED nonrepo

LoadLibrary ==
  /\ lret' = [op |-> "load_library", result |-> load_library(data_file)]
  /\ UNCHANGED <<nonrepo, data_file, written, mvars>>

\* the application and its file: records and tasks are added, the
\* application quits (the data are saved) and starts again
nonsession ==
  <<clock, pushes_left, ret, rvars, ivars, avars, mvars>>

SessionAddItem ==
  /\ Len(items) < MaxStored
  /\ items' = add_item(items, Item("id1", 1))
  /\ tret' = [op |-> "add_item", task |-> <<>>]
  /\ UNCHANGED <<undo_stack, pushed, task_queue, recently_viewed,
                 added, returned, drained, svars, pvars, nonsession, mvars>>

\* the application quits: _save_data
Quit ==
  /\ LET data == get_data([items |-> items, task_queue |-> task_queue,
                           keyword_to_items |-> keyword_to_items,
                           tag_frequency |-> tag_frequency])
     IN /\ data_file' = [exists |-> TRUE, bytes |-> save_library(data)]
        /\ written' = save_library(data)
        /\ out' = [op |-> "save", items |-> items, tasks |-> task_queue]
  /\ lret' = [op |-> "save_library", result |-> Returned(LibraryData(<<>>))]
  /\ tret' = [op |-> "quit", task |-> <<>>]
  /\ UNCHANGED <<items, undo_stack, pushed, task_queue, recently_viewed,
                 added, returned, drained, svars, given, clock, pushes_left,
                 ret, ivars, avars, mvars>>

\* the application starts after it has quit: new services, then _load_data
Start ==
  /\ tret.op = "quit"
  /\ LET session == start_session(data_file)
     IN /\ items' = session.items
        /\ task_queue' = session.task_queue
        /\ keyword_to_items' = session.keyword_to_items
        /\ tag_frequency' = session.tag_frequency
        /\ indexed' = session.items
  /\ sret' = [op |-> "build_index", query |-> <<>>, item_map |-> EmptyDict,
              results |-> <<>>, prior |-> {}]
  /\ lret' = [op |-> "load_library", result |-> load_library(data_file)]
  /\ tret' = [op |-> "start", task |-> <<>>]
  /\ undo_stack' = <<>>
  /\ pushed' = <<>>
  /\ recently_viewed' = <<>>
  /\ added' = {}
  /\ returned' = {}
  /\ drained' = <<>>
  /\ UNCHANGED <<data_file, written, pvars, clock, pushes_left, ret, ivars,
                 avars, mvars>>

(***************************************************************************)
(* Calls on one record.                                                    *)
(***************************************************************************)
nonitem ==
  <<items, undo_stack, clock, pushes_left, pushed, ret,
    task_queue, recently_viewed, tret, added, returned, drained, svars,
    rvars, avars, pvars, mvars>>

Ratings == (0 - MaxRating)..MaxRating

\* the tags add_tag and remove_tag are given
TagInputs ==
  {<<"a">>, <<"A">>, <<" ", "a", " ">>, <<"b">>, <<"B", " ">>, <<" ">>, <<>>}

\* the tag lists the constructor and from_dict are given
TagLists ==
  {<<>>, << <<"b">>, <<"a">> >>, << <<"A">>, <<"a">> >>, << <<" ", "b">> >>}

\* the arguments the constructor is given: every tag list and rating with a
\* valid title and type, and a blank title and an unknown type
ConstructorArgs ==
  {[title |-> <<" ", "T">>, type |-> <<"p", "d", "f">>, tags |-> tags,
    rating |-> rating] : tags \in TagLists, rating \in Ratings}
  \cup {[title |-> <<" ">>, type |-> <<"p", "d", "f">>, tags |-> <<>>,
         rating |-> 0],
        [title |-> <<"T">>, type |-> <<"x">>, tags |-> <<>>, rating |-> 0]}

\* the dictionaries from_dict is given: every tag list and rating, a
\* dictionary without tags and rating, and one with a blank title
Dicts ==
  {[title |-> <<"T">>, category |-> <<"C">>, type |-> <<"p", "d", "f">>,
    tags |-> tags, rating |-> rating] : tags \in TagLists, rating \in Ratings}
  \cup {[title |-> <<"T">>, category |-> <<"C">>, type |-> <<"p", "d", "f">>],
        [title |-> <<" ">>, category |-> <<"C">>, type |-> <<"p", "d", "f">>,
         tags |-> << <<"a">> >>, rating |-> 9]}

\* a call on the record: the operation, its argument, its outcome, and the
\* operation that made the record it acted on
ICall(op, arg, result, origin) ==
  [op |-> op, arg |-> arg, result |-> result, origin |-> origin]

Construct ==
  /\ \E args \in ConstructorArgs :
       LET made == construct_item(args.title, <<"C">>, args.type, args.tags,
                                  args.rating)
       IN /\ the_item' = IF made.raised = "no" THEN made.item ELSE the_item
          /\ iret' = ICall("Item", <<>>, made.raised,
                          IF made.raised = "no" THEN "Item"
                          ELSE iret.origin)
  /\ UNCHANGED nonitem

FromDict ==
  /\ \E data \in Dicts :
       LET made == from_dict(data)
       IN /\ the_item' = IF made.raised = "no" THEN made.item ELSE the_item
          /\ iret' = ICall("from_dict", <<>>, made.raised,
                          IF made.raised = "no" THEN "from_dict"
                          ELSE iret.origin)
  /\ UNCHANGED nonitem

SetRating ==
  /\ \E value \in Ratings :
       /\ the_item' = set_rating(the_item, value)
       /\ iret' = ICall("set_rating", value, "None", iret.origin)
  /\ UNCHANGED nonitem

AddTag ==
  /\ Len(the_item.tags) < MaxTags
  /\ \E tag \in TagInputs :
       /\ the_item' = add_tag(the_item, tag)
       /\ iret' = ICall("add_tag", tag, "None", iret.origin)
  /\ UNCHANGED nonitem

RemoveTag ==
  /\ \E tag \in TagInputs :
       LET r == remove_tag(the_item, tag)
       IN /\ the_item' = r.item
          /\ iret' = ICall("remove_tag", tag,
                           IF r.result THEN "True" ELSE "False",
                           iret.origin)
  /\ UNCHANGED nonitem

\* what a call on the objects leaves: the operation, its outcome, and for an
\* undo the position of the record put back, the record the snapshot was
\* taken of and that record's state when it was taken
NoRecord == [id |-> "", title |-> <<>>, tags |-> <<>>, rating |-> 0]

ACall(op, result, at, origin, asof) ==
  [op |-> op, result |-> result, at |-> at, origin |-> origin, asof |-> asof]

nonalias ==
  <<items, undo_stack, clock, pushes_left, pushed, ret,
    task_queue, recently_viewed, tret, added, returned, drained, svars,
    rvars, ivars, pvars, mvars>>

service == [heap |-> store, items |-> item_refs, undo_stack |-> undo_refs]

\* the caller makes a record and adds it to the empty library
NewRecord ==
  /\ Len(store.objs) < MaxObjects
  /\ item_refs = <<>>
  /\ LET made == alloc_item(store, "id1", <<"T">>, << <<"b">> >>, 0)
     IN /\ store' = made.heap
        /\ item_refs' = add_item(item_refs, made.ref)
        /\ held' = made.ref
  /\ aret' = ACall("add_item", TRUE, 0, 0, NoRecord)
  /\ UNCHANGED <<undo_refs, snap, nonalias, mvars>>

DeleteHeld ==
  /\ held # 0
  /\ Len(store.objs) < MaxObjects
  /\ LET r == delete_item_ref(service, held)
     IN /\ store' = r.self.heap
        /\ item_refs' = r.self.items
        /\ undo_refs' = r.self.undo_stack
        /\ aret' = ACall("delete_item", r.result, 0, 0, NoRecord)
  /\ UNCHANGED <<held, snap, nonalias, mvars>>

\* update_item(r, n) with n the record itself, a new record with r's id, or
\* a new record with another id
UpdateHeld ==
  /\ held # 0
  /\ Len(store.objs) + 1 < MaxObjects
  /\ \E id \in {"", "id1", "id2"} :
       LET made == IF id = ""
                     THEN [heap |-> store, ref |-> held]
                     ELSE alloc_item(store, id, <<"U">>, <<>>, 0)
           r == update_item_ref([service EXCEPT !.heap = made.heap], held,
                                made.ref)
       IN /\ store' = r.self.heap
          /\ item_refs' = r.self.items
          /\ undo_refs' = r.self.undo_stack
          /\ aret' = ACall("update_item", r.result, 0, 0, NoRecord)
  /\ UNCHANGED <<held, snap, nonalias, mvars>>

\* a snapshot taken outside the service: Memento(r, "EDIT")
TakeSnapshot ==
  /\ held # 0
  /\ snap = <<>>
  /\ Len(store.objs) < MaxObjects
  /\ LET made == Memento_ref(store, held, "EDIT")
     IN /\ store' = made.heap
        /\ snap' = <<made.memento>>
  /\ aret' = ACall("Memento", TRUE, 0, 0, NoRecord)
  /\ UNCHANGED <<item_refs, undo_refs, held, nonalias, mvars>>

MutateTitle ==
  /\ held # 0
  /\ store' = set_title_ref(store, held, <<"U">>)
  /\ store' # store
  /\ aret' = ACall("title", TRUE, 0, 0, NoRecord)
  /\ UNCHANGED <<item_refs, undo_refs, held, snap, nonalias, mvars>>

MutateRating ==
  /\ held # 0
  /\ store' = set_rating_ref(store, held, 9)
  /\ store' # store
  /\ aret' = ACall("set_rating", TRUE, 0, 0, NoRecord)
  /\ UNCHANGED <<item_refs, undo_refs, held, snap, nonalias, mvars>>

MutateTags ==
  /\ held # 0
  /\ \/ store' = add_tag_ref(store, held, <<"A">>)
     \/ store' = remove_tag_ref(store, held, <<"B">>)
  /\ store' # store
  /\ aret' = ACall("tags", TRUE, 0, 0, NoRecord)
  /\ UNCHANGED <<item_refs, undo_refs, held, snap, nonalias, mvars>>

UndoRef ==
  /\ LET r == undo_ref(service)
         top == undo_refs[Len(undo_refs)]
     IN /\ store' = r.self.heap
        /\ item_refs' = r.self.items
        /\ undo_refs' = r.self.undo_stack
        /\ aret' = IF undo_refs = <<>>
                     THEN ACall("undo", r.result, 0, 0, NoRecord)
                     ELSE ACall("undo", r.result, r.at, top.origin, top.asof)
  /\ UNCHANGED <<held, snap, nonalias, mvars>>

nonpure ==
  <<items, undo_stack, clock, pushes_left, pushed, ret,
    task_queue, recently_viewed, tret, added, returned, drained, svars,
    rvars, ivars, avars, mvars>>

\* the lists of tasks that are compared and sorted
TaskLists == UNION {[1..n -> Tasks] : n \in 0..MaxSorted}

\* two tasks of the list are compared with every operator of the class
CompareTasks ==
  /\ \E i, j \in DOMAIN given :
       out' = [op |-> "compare", a |-> given[i], b |-> given[j],
               lt |-> task_lt(given[i], given[j]),
               eq |-> task_eq(given[i], given[j]),
               gt |-> task_gt(given[i], given[j]),
               le |-> task_le(given[i], given[j]),
               ge |-> task_ge(given[i], given[j]),
               ne |-> task_ne(given[i], given[j])]
  /\ UNCHANGED <<given, nonpure, mvars>>

SortTasks ==
  /\ out' = [op |-> "sorted", value |-> sorted(given)]
  /\ UNCHANGED <<given, nonpure, mvars>>

\* the records that are viewed
ViewedItems == {Item("id1", 1), Item("id2", 1)}

\* the records viewed one after the other
ViewScripts == UNION {[1..n -> ViewedItems] : n \in 0..MaxViews}

\* the stack after n view_item calls since construction
FilledViewed(n) ==
  [k \in 1..n |-> IF k % 2 = 1 THEN Item("id1", 1) ELSE Item("id2", 1)]

Counts ==
  (0..MaxCount)
    \cup {MAX_RECENT_ITEMS - 1, MAX_RECENT_ITEMS, MAX_RECENT_ITEMS + 1}

nonview ==
  <<items, undo_stack, clock, pushes_left, pushed, ret,
    task_queue, tret, added, returned, drained, svars, rvars, ivars, avars, mvars>>

\* view_item of the next record to view
ViewNext ==
  /\ given # <<>>
  /\ recently_viewed' = view_item(recently_viewed, Head(given))
  /\ given' = Tail(given)
  /\ out' = [op |-> "view_item", item |-> <<Head(given)>>, count |-> 0,
             before |-> recently_viewed]
  /\ UNCHANGED nonview

GetLastViewed ==
  /\ LET r == get_last_viewed(recently_viewed)
     IN /\ recently_viewed' = r.recently_viewed
        /\ out' = [op |-> "get_last_viewed", item |-> r.item, count |-> 0,
                   before |-> recently_viewed]
  /\ UNCHANGED <<given, nonview, mvars>>

GetRecentHistory ==
  /\ \E count \in Counts :
       out' = [op |-> "get_recent_history",
               item |-> get_recent_history(recently_viewed, count),
               count |-> count, before |-> recently_viewed]
  /\ UNCHANGED <<given, recently_viewed, nonview, mvars>>

(***************************************************************************)
(* Files on disk (pathlib) and the import service.  A path is the sequence *)
(* of its names, a name a sequence of characters; every directory can be   *)
(* read.                                                                   *)
(***************************************************************************)
UpperChar(c) ==
  CASE c = "h" -> "H"
    [] c = "s" -> "S"
    [] OTHER -> c

\* str.capitalize()
capitalize(s) ==
  IF s = <<>> THEN s ELSE <<UpperChar(Head(s))>> \o lower(Tail(s))

\* name.rfind('.'), counted from 1; 0 if the name has no dot
RECURSIVE rfind_dot(_, _)
rfind_dot(name, i) ==
  IF i = 0 THEN 0
  ELSE IF name[i] = "." THEN i
  ELSE rfind_dot(name, i - 1)

\* PurePath.name
path_name(path) == path[Len(path)]

\* PurePath.parent
path_parent(path) == SubSeq(path, 1, Len(path) - 1)

\* PurePath.suffix
path_suffix(path) ==
  LET name == path_name(path)
      i == rfind_dot(name, Len(name))
  IN IF 1 < i /\ i < Len(name) THEN SubSeq(name, i, Len(name)) ELSE <<>>

\* PurePath.stem
path_stem(path) ==
  LET name == path_name(path)
      i == rfind_dot(name, Len(name))
  IN IF 1 < i /\ i < Len(name) THEN SubSeq(name, 1, i - 1) ELSE name

SUPPORTED_EXTENSIONS ==
  {<<".", "t", "x", "t">>, <<".", "m", "d">>, <<".", "p", "d", "f">>,
   <<".", "m", "p", "3">>, <<".", "m", "p", "4">>,
   <<".", "d", "o", "c", "x">>, <<".", "p", "p", "t", "x">>}

TYPE_MAPPING ==
  [ext \in SUPPORTED_EXTENSIONS |->
     CASE ext = <<".", "t", "x", "t">> -> <<"n", "o", "t", "e">>
       [] ext = <<".", "m", "d">> -> <<"n", "o", "t", "e">>
       [] ext = <<".", "p", "d", "f">> -> <<"p", "d", "f">>
       [] ext = <<".", "m", "p", "3">> -> <<"a", "u", "d", "i", "o">>
       [] ext = <<".", "m", "p", "4">> -> <<"v", "i", "d", "e", "o">>
       [] ext = <<".", "d", "o", "c", "x">> -> <<"d", "o", "c", "x">>
       [] ext = <<".", "p", "p", "t", "x">> -> <<"p", "p", "t">>]

\* the directories on disk
Home == <<"h", "o", "m", "e">>

Root == <<Home>>

SubDir == <<Home, <<"s">>>>

Directories == <<Root, SubDir>>

Dir(path) == [path |-> path, kind |-> "dir", target |-> path]

File(directory, name) ==
  [path |-> Append(directory, name), kind |-> "file",
   target |-> Append(directory, name)]

Link(directory, name, target) ==
  [path |-> Append(directory, name), kind |-> "link", target |-> target]

\* the files and symbolic links that can be on disk, in the order in which
\* their directory lists them
Disk ==
  <<File(Root, <<"a", ".", "t", "x", "t">>),
    File(Root, <<"b", ".", "P", "D", "F">>),
    File(Root, <<"c", ".", "d", "o", "c", "x">>),
    File(Root, <<"d", ".", "p", "p", "t", "x">>),
    File(Root, <<"e", ".", "j", "p", "g">>),
    File(Root, <<".", "m", "d">>),
    File(Root, <<" ", ".", "t", "x", "t">>),
    File(SubDir, <<"f", ".", "m", "p", "3">>),
    File(SubDir, <<"g", ".", "m", "p", "4">>),
    Link(SubDir, <<"l", ".", "m", "d">>,
         Append(Root, <<"a", ".", "t", "x", "t">>))>>

\* the entry of a path
entry_of(path) == CHOOSE e \in Range(Disk) : e.path = path

\* Path.is_dir()
is_dir(path) == path \in Range(Directories)

\* Path.is_file() of a directory entry; a link is followed
is_file(item, fs) ==
  \/ item.kind = "file"
  \/ item.kind = "link" /\ \E e \in fs : e.kind = "file" /\ e.path = item.target

\* Path.exists()
exists(path, fs) ==
  \/ is_dir(path)
  \/ \E e \in fs : e.path = path /\ is_file(e, fs)

\* faulty variant: the path as listed, links not followed
unresolved(item) == item.path

\* str(item.resolve())
resolve(item) == item.target

\* directory.iterdir(): the subdirectories, then the files and links
iterdir(directory, fs) ==
  LET In(e) == path_parent(e.path) = directory
      subdirs == SelectSeq([i \in DOMAIN Directories |-> Dir(Directories[i])], In)
      Here(e) == e \in fs /\ In(e)
  IN subdirs \o SelectSeq(Disk, Here)

RECURSIVE scan_directory(_, _, _)
RECURSIVE scan_loop(_, _, _, _)
\* for item in directory.iterdir()
scan_loop(list, found_files, processed, fs) ==
  IF list = <<>>
    THEN [found_files |-> found_files, processed_paths |-> processed]
    ELSE LET item == Head(list)
             ext == lower(path_suffix(item.path))
             path_str == resolve(item)
         IN IF item.kind = "dir"
              THEN LET sub == scan_directory(item.path, processed, fs)
                   IN scan_loop(Tail(list), found_files \o sub.found_files,
                                sub.processed_paths, fs)
            ELSE IF /\ is_file(item, fs)
                    /\ ext \in SUPPORTED_EXTENSIONS
                    /\ path_str \notin processed
              THEN scan_loop(Tail(list), Append(found_files, item.path),
                             processed \cup {path_str}, fs)
            ELSE scan_loop(Tail(list), found_files, processed, fs)

\* FileUtil.scan_directory: the paths found and the set it has added to
scan_directory(directory, processed, fs) ==
  IF ~exists(directory, fs) \/ ~is_dir(directory)
    THEN [found_files |-> <<>>, processed_paths |-> processed]
    ELSE scan_loop(iterdir(directory, fs), <<>>, processed, fs)

\* FileUtil.determine_type
determine_type(file_path) ==
  dict_get(TYPE_MAPPING, lower(path_suffix(file_path)),
           <<"u", "n", "k", "n", "o", "w", "n">>)

ignore_dirs ==
  {<<"D", "e", "s", "k", "t", "o", "p">>,
   <<"D", "o", "w", "n", "l", "o", "a", "d", "s">>,
   <<"D", "o", "c", "u", "m", "e", "n", "t", "s">>,
   <<"U", "s", "e", "r", "s">>, Home}

type_category_map ==
  [type \in {<<"p", "d", "f">>, <<"d", "o", "c", "x">>, <<"p", "p", "t">>,
             <<"v", "i", "d", "e", "o">>, <<"a", "u", "d", "i", "o">>,
             <<"n", "o", "t", "e">>} |->
     CASE type \in {<<"p", "d", "f">>, <<"d", "o", "c", "x">>} ->
            <<"D", "o", "c", "u", "m", "e", "n", "t", "s">>
       [] type = <<"p", "p", "t">> ->
            <<"P", "r", "e", "s", "e", "n", "t", "a", "t", "i", "o", "n", "s">>
       [] type = <<"v", "i", "d", "e", "o">> -> <<"V", "i", "d", "e", "o", "s">>
       [] type = <<"a", "u", "d", "i", "o">> -> <<"A", "u", "d", "i", "o">>
       [] type = <<"n", "o", "t", "e">> -> <<"N", "o", "t", "e", "s">>]

\* ImportService._derive_category
derive_category(file_path, file_type) ==
  LET parent_name == path_name(path_parent(file_path))
  IN IF parent_name # <<>> /\ parent_name \notin ignore_dirs
       THEN capitalize(parent_name)
       ELSE dict_get(type_category_map, file_type,
                     <<"I", "m", "p", "o", "r", "t", "e", "d">>)

\* for file_path in files: a path whose Item(...) raises is logged and skipped;
\* made counts the uuids drawn before, which gives each record a fresh id
RECURSIVE import_loop(_, _, _)
import_loop(files, imported_items, made) ==
  IF files = <<>>
    THEN imported_items
    ELSE LET file_path == Head(files)
             file_type == determine_type(file_path)
             title == IF path_stem(file_path) # <<>> THEN path_stem(file_path)
                      ELSE path_name(file_path)
             category == derive_category(file_path, file_type)
             item == construct_item(IF title = <<>> THEN <<"U">> ELSE title,
                                    category, file_type, <<>>, 0)
         IN IF item.raised # "no"
              THEN import_loop(Tail(files), imported_items, made)
              ELSE import_loop(Tail(files),
                               Append(imported_items,
                                      [item.item EXCEPT
                                         !.id = <<"uuid4", made + 1>>,
                                         !.file_path = file_path]),
                               made + 1)

\* ImportService.import_from_directory: the records returned, the paths
\* scan_directory found and the processed paths it leaves
import_from_directory(processed, directory, fs) ==
  IF ~exists(directory, fs) \/ ~is_dir(directory)
    THEN [imported_items |-> <<>>, files |-> <<>>,
          processed_paths |-> processed]
    ELSE LET scan == scan_directory(directory, processed, fs)
         IN [imported_items |->
               import_loop(scan.found_files, <<>>, Cardinality(processed)),
             files |-> scan.found_files,
             processed_paths |-> scan.processed_paths]

\* the file a path leads to
realpath(path) == entry_of(path).target

\* the files of the paths a call returned
resolved(paths) == [i \in DOMAIN paths |-> realpath(paths[i])]

\* what import_from_directory and scan_directory are called on: the
\* directories and the path of a file, which does not exist until the file
\* appears
Scanned ==
  Range(Directories) \cup {Disk[1].path}

MCall(op, directory, before, files, value, again) ==
  [op |-> op, directory |-> directory, before |-> before, files |-> files,
   value |-> value, again |-> again]

nonimport ==
  <<dynvars, svars, rvars, ivars, avars, pvars>>

\* a file or a link appears on disk
Touch ==
  /\ Cardinality(entries) < MaxFiles
  /\ \E e \in Range(Disk) \ entries : entries' = entries \cup {e}
  /\ mret' = MCall("touch", <<>>, processed_paths, <<>>, <<>>, FALSE)
  /\ UNCHANGED <<processed_paths, yielded, nonimport>>

\* the previous call was of the same directory and nothing changed on disk
Repeated(directory) ==
  /\ mret.op \in {"import_from_directory", "scan_directory"}
  /\ mret.directory = directory

ImportFromDirectory ==
  /\ \E directory \in Scanned :
       LET r == import_from_directory(processed_paths, directory, entries)
       IN /\ processed_paths' = r.processed_paths
          /\ yielded' = yielded \o resolved([i \in DOMAIN r.imported_items |->
                                           r.imported_items[i].file_path])
          /\ mret' = MCall("import_from_directory", directory,
                           processed_paths, r.files, r.imported_items,
                           Repeated(directory))
  /\ UNCHANGED <<entries, nonimport>>

\* FileUtil.scan_directory(directory, service.get_processed_paths())
ScanDirectory ==
  /\ \E directory \in Scanned :
       LET r == scan_directory(directory, processed_paths, entries)
       IN /\ processed_paths' = r.processed_paths
          /\ yielded' = yielded \o resolved(r.found_files)
          /\ mret' = MCall("scan_directory", directory, processed_paths,
                           r.found_files, r.found_files, Repeated(directory))
  /\ UNCHANGED <<entries, nonimport>>

(***************************************************************************)
(* Specification of the library service                                    *)
(***************************************************************************)
NoCall ==
  [op |-> "init", result |-> FALSE, prev_op |-> "none", prev_result |-> FALSE]

\* the service as constructed, apart from the undo history and the
\* recently viewed records
\* the state after construction, apart from the collection of records
ConstructedElse ==
  /\ ret = NoCall
  /\ task_queue = <<>>
  /\ tret = [op |-> "init", task |-> <<>>]
  /\ added = {}
  /\ returned = {}
  /\ drained = <<>>
  /\ keyword_to_items = EmptyDict
  /\ tag_frequency = EmptyDict
  /\ indexed = <<>>
  /\ sret = [op |-> "init", query |-> <<>>, item_map |-> EmptyDict,
             results |-> <<>>, prior |-> {}]
  /\ data_file = NoFile
  /\ written = <<>>
  /\ lret = [op |-> "none", result |-> Returned(LibraryData(<<>>))]
  /\ the_item = construct_item(<<"T">>, <<"C">>, <<"p", "d", "f">>, <<>>, 0).item
  /\ iret = ICall("Item", <<>>, "no", "Item")
  /\ store = [objs |-> <<>>, lists |-> <<>>]
  /\ item_refs = <<>>
  /\ undo_refs = <<>>
  /\ held = 0
  /\ snap = <<>>
  /\ aret = ACall("init", FALSE, 0, 0, NoRecord)
  /\ entries = {}
  /\ processed_paths = {}
  /\ yielded = <<>>
  /\ mret = MCall("init", <<>>, {}, <<>>, <<>>, FALSE)

Constructed ==
  /\ items = <<>>
  /\ ConstructedElse

\* the undo history as constructed
EmptyHistory ==
  /\ undo_stack = <<>>
  /\ clock = 0
  /\ pushes_left = MaxPushes
  /\ pushed = <<>>

Init ==
  /\ Constructed
  /\ recently_viewed = <<>>
  /\ given = NoArg
  /\ out = NoOut
  /\ undo_stack = <<>>
  /\ clock = 0
  /\ pushes_left = MaxPushes
  /\ pushed = <<>>

Next ==
  \/ AddItem
  \/ DeleteItem
  \/ UpdateItem
  \/ Undo
  \/ AddTask(MaxTasks, FewTasks)
  \/ ViewItem

Spec == Init /\ [][Next]_vars

(***************************************************************************)
(* Specification of the task queue alone                                   *)
(***************************************************************************)
TaskNext ==
  \/ AddTask(MaxQueue, Tasks)
  \/ GetNextTask
  \/ PeekNextTask

TaskSpec == Init /\ [][TaskNext]_vars

(***************************************************************************)
(* Specification of the task queue with tasks changed while queued         *)
(***************************************************************************)
PriorityNext ==
  \/ AddTask(MaxChanged, Tasks)
  \/ GetNextTask
  \/ PeekNextTask
  \/ SetPriority

PrioritySpec == Init /\ [][PriorityNext]_vars

(***************************************************************************)
(* Specification of the records and the task queue together: the tasks     *)
(* refer to a record by item_id, and the records go and come back.         *)
(***************************************************************************)
OrphanTasks == {Task("id1", p, "d1") : p \in 1..MaxOrphans}

\* two records have been added
OrphanInit ==
  /\ ConstructedElse
  /\ items = <<Item("id1", 1), Item("id2", 1)>>
  /\ recently_viewed = <<>>
  /\ given = NoArg
  /\ out = NoOut
  /\ EmptyHistory

OrphanNext ==
  \/ DeleteItem
  \/ UpdateItem
  \/ Undo
  \/ AddTask(MaxOrphans, OrphanTasks)
  \/ GetNextTask

OrphanSpec == OrphanInit /\ [][OrphanNext]_vars

(***************************************************************************)
(* Specification of the search service alone                               *)
(***************************************************************************)
SearchNext ==
  \/ BuildIndex
  \/ Search

SearchSpec == Init /\ [][SearchNext]_vars

(***************************************************************************)
(* Specification of the library service with a long undo history: the      *)
(* state reached from construction by n times add_item(x), delete_item(x), *)
(* with n at or just below the limit of the history.                       *)
(***************************************************************************)
FilledHistory(n) ==
  [k \in 1..n |->
     Memento(IF k % 2 = 1 THEN Item("id1", 1) ELSE Item("id2", 2),
             "DELETE", k)]

LimitInit ==
  /\ Constructed
  /\ recently_viewed = <<>>
  /\ given = NoArg
  /\ out = NoOut
  /\ \E n \in {MAX_UNDO_STACK - 1, MAX_UNDO_STACK} :
       /\ undo_stack = FilledHistory(n)
       /\ pushed = FilledHistory(n)
       /\ clock = n
  /\ pushes_left = MaxExtraPushes

LimitNext ==
  \/ AddItem
  \/ DeleteItem
  \/ UpdateItem
  \/ Undo

LimitSpec == LimitInit /\ [][LimitNext]_vars

(***************************************************************************)
(* Specification of the library service with runs of operations undone.    *)
(* given.run: the collection before each successful delete_item or         *)
(* update_item (the update keeping the id) that no other call has followed *)
(* except the undo of a later one, the oldest first; given.proper: every   *)
(* add_item so far was called with an id that was neither in the           *)
(* collection nor in the history, every update_item with a new record of   *)
(* the old record's id.  out: the last call if it was one of undo, with the *)
(* history before it and the number of calls of undo in a row that have    *)
(* each undone an operation of the run.                                    *)
(***************************************************************************)
RunItems ==
  {Item("id1", 1), Item("id1", 2), Item("id1", 3), Item("id2", 5)}

ids_of(its) == {its[i].id : i \in DOMAIN its}

unique_ids(its) == \A i, j \in DOMAIN its : its[i].id = its[j].id => i = j

saved_ids(stack) == {stack[i].saved_item.id : i \in DOMAIN stack}

CollectionBefore(its) == [items |-> Range(its), unique |-> unique_ids(its)]

NoRun == [items |-> {}, unique |-> FALSE]

NoUndo ==
  [op |-> "other", result |-> FALSE, before |-> <<>>, tracked |-> FALSE,
   expected |-> NoRun, row |-> 0]

\* the history after add_item(z), delete_item(z), add_item(x) and 49 times
\* update_item of x from one of two states to the other: 50 snapshots, the
\* oldest the deletion of z
EditedHistory ==
  [k \in 1..MAX_UNDO_STACK |->
     IF k = 1 THEN Memento(Item("id2", 5), "DELETE", 1)
     ELSE Memento(Item("id1", IF k % 2 = 0 THEN 1 ELSE 2), "EDIT", k)]

RunInit ==
  /\ ConstructedElse
  /\ recently_viewed = <<>>
  /\ given = [run |-> <<>>, proper |-> TRUE]
  /\ out = NoUndo
  /\ \/ /\ items = <<>>
        /\ undo_stack = <<>>
        /\ pushed = <<>>
        /\ clock = 0
        /\ pushes_left = MaxRun
     \/ /\ items = <<Item("id1", 2)>>
        /\ undo_stack = EditedHistory
        /\ pushed = EditedHistory
        /\ clock = MAX_UNDO_STACK
        /\ pushes_left = MaxRun - 1

nonlib ==
  <<task_queue, recently_viewed, tret, added, returned, drained,
    svars, rvars, ivars, avars, mvars>>

AddItemRun ==
  /\ Len(items) < MaxItems
  /\ \E item \in RunItems :
       /\ items' = add_item(items, item)
       /\ given' = [given EXCEPT
                      !.run = <<>>,
                      !.proper = /\ @
                                 /\ item.id \notin ids_of(items)
                                 /\ item.id \notin saved_ids(undo_stack)]
       /\ out' = NoUndo
  /\ UNCHANGED <<undo_stack, clock, pushes_left, pushed, ret, nonlib>>

DeleteItemRun ==
  /\ pushes_left > 0
  /\ \E item \in RunItems :
       LET r == delete_item(items, undo_stack, clock + 1, item)
       IN /\ items' = r.items
          /\ undo_stack' = r.undo_stack
          /\ clock' = IF r.result THEN clock + 1 ELSE clock
          /\ pushes_left' = IF r.result THEN pushes_left - 1 ELSE pushes_left
          /\ pushed' = pushed_after(r.result, Memento(item, "DELETE", clock + 1))
          /\ given' = [given EXCEPT
                         !.run = IF r.result THEN Append(@, CollectionBefore(items))
                                 ELSE <<>>]
          /\ out' = NoUndo
  /\ UNCHANGED <<ret, nonlib>>

UpdateItemRun ==
  /\ pushes_left > 0
  /\ \E old_item \in RunItems, new_item \in RunItems :
       LET r == update_item(items, undo_stack, clock + 1, old_item, new_item)
           kept == new_item.id = old_item.id
       IN /\ items' = r.items
          /\ undo_stack' = r.undo_stack
          /\ clock' = IF r.result THEN clock + 1 ELSE clock
          /\ pushes_left' = IF r.result THEN pushes_left - 1 ELSE pushes_left
          /\ pushed' = pushed_after(r.result, Memento(old_item, "EDIT", clock + 1))
          /\ given' = [given EXCEPT
                         !.run = IF r.result /\ kept
                                   THEN Append(@, CollectionBefore(items))
                                   ELSE <<>>,
                         !.proper = @ /\ kept]
          /\ out' = NoUndo
  /\ UNCHANGED <<ret, nonlib>>

\* of a history that was full to begin with, the newest snapshots are undone
UndoRun ==
  /\ clock < MAX_UNDO_STACK \/ Len(undo_stack) > MAX_UNDO_STACK - MaxUndone
  /\ LET r == undo(items, undo_stack)
         n == Len(given.run)
     IN /\ Len(r.items) <= MaxItems
        /\ items' = r.items
        /\ undo_stack' = r.undo_stack
        /\ given' = [given EXCEPT
                       !.run = IF n = 0 THEN <<>> ELSE SubSeq(@, 1, n - 1)]
        /\ out' = [op |-> "undo", result |-> r.result,
                   before |-> undo_stack, tracked |-> n > 0,
                   expected |-> IF n = 0 THEN NoRun ELSE given.run[n],
                   row |-> IF n > 0 THEN out.row + 1 ELSE 0]
  /\ pushed' = IF undo_stack = <<>> THEN pushed
               ELSE SubSeq(pushed, 1, Len(pushed) - 1)
  /\ UNCHANGED <<clock, pushes_left, ret, nonlib>>

RunNext ==
  \/ AddItemRun
  \/ DeleteItemRun
  \/ UpdateItemRun
  \/ UndoRun

UndoSpec == RunInit /\ [][RunNext]_vars

(***************************************************************************)
(* Specification of the searches of the controller between the operations  *)
(* on the records                                                          *)
(***************************************************************************)
ControllerInit ==
  /\ Constructed
  /\ recently_viewed = <<>>
  /\ given = [run |-> <<>>, proper |-> TRUE]
  /\ out = NoUndo
  /\ EmptyHistory

ControllerNext ==
  \/ RunNext
  \/ HandleSearch

ControllerSpec == ControllerInit /\ [][ControllerNext]_vars

(***************************************************************************)
(* Specification of the repository alone                                   *)
(***************************************************************************)
RepoNext ==
  \/ SaveLibrary
  \/ ForeignFile
  \/ Truncate
  \/ DeleteLibrary
  \/ LoadLibrary

RepoSpec == Init /\ [][RepoNext]_vars

(***************************************************************************)
(* Specification of one record under its own operations                    *)
(***************************************************************************)
ItemNext ==
  \/ Construct
  \/ FromDict
  \/ SetRating
  \/ AddTag
  \/ RemoveTag

ItemSpec == Init /\ [][ItemNext]_vars

(***************************************************************************)
(* Specification of the comparison of tasks: any list of tasks, its tasks  *)
(* compared pairwise and the list sorted                                   *)
(***************************************************************************)
CompareInit ==
  /\ Constructed
  /\ recently_viewed = <<>>
  /\ EmptyHistory
  /\ given \in TaskLists
  /\ out = NoOut

CompareNext ==
  \/ CompareTasks
  \/ SortTasks

CompareSpec == CompareInit /\ [][CompareNext]_vars

(***************************************************************************)
(* Specification of the recently viewed records, from a stack that is      *)
(* empty, short, or at or just below its limit                             *)
(***************************************************************************)
ViewInit ==
  /\ Constructed
  /\ EmptyHistory
  /\ \E n \in {0, 2, MAX_RECENT_ITEMS - 1, MAX_RECENT_ITEMS} :
       recently_viewed = FilledViewed(n)
  /\ given \in ViewScripts
  /\ out = NoOut

ViewedNext ==
  \/ ViewNext
  \/ GetLastViewed
  \/ GetRecentHistory

ViewSpec == ViewInit /\ [][ViewedNext]_vars

(***************************************************************************)
(* Specification of the application over its sessions                      *)
(***************************************************************************)
SessionNext ==
  \/ SessionAddItem
  \/ AddTask(MaxSaved, Tasks)
  \/ Quit
  \/ Start

SessionSpec == Init /\ [][SessionNext]_vars

(***************************************************************************)
(* Specification of the application over its sessions with a data file     *)
(* that is damaged or replaced between them                                *)
(***************************************************************************)
CorruptNext ==
  \/ SessionAddItem
  \/ Quit
  \/ Start
  \/ ForeignFile
  \/ Truncate

CorruptSpec == Init /\ [][CorruptNext]_vars

(***************************************************************************)
(* Specification of the popular tags and the keyword suggestions           *)
(***************************************************************************)
SuggestNext ==
  \/ Reindex
  \/ PopularTags
  \/ SuggestKeywords

SuggestSpec == Init /\ [][SuggestNext]_vars

(***************************************************************************)
(* The search engine and a caller that changes what the snapshot accessors *)
(* returned.                                                               *)
(***************************************************************************)
CopyInit ==
  /\ Constructed
  /\ recently_viewed = <<>>
  /\ EmptyHistory
  /\ given = NoCopy
  /\ out = NoOut

CopyNext ==
  \/ CopyReindex
  \/ GetKeywordIndex
  \/ GetTagFrequency
  \/ CopySetEdit
  \/ CopyDictEdit

CopySpec == CopyInit /\ [][CopyNext]_vars

(***************************************************************************)
(* Specification of the import service over a directory that fills up      *)
(***************************************************************************)
ImportNext ==
  \/ Touch
  \/ ImportFromDirectory
  \/ ScanDirectory

ImportSpec == Init /\ [][ImportNext]_vars

(***************************************************************************)
(* Specification of records as objects: a caller keeps a reference to a    *)
(* record of the library and changes it in place                           *)
(***************************************************************************)
AliasNext ==
  \/ NewRecord
  \/ DeleteHeld
  \/ UpdateHeld
  \/ TakeSnapshot
  \/ MutateTitle
  \/ MutateRating
  \/ MutateTags
  \/ UndoRef

AliasSpec == Init /\ [][AliasNext]_vars

(***************************************************************************)
(* Properties of the library service                                       *)
(***************************************************************************)
AfterDelete(r) == delete_item(items, undo_stack, clock + 1, r)

UndoAfterDelete(r) == undo(AfterDelete(r).items, AfterDelete(r).undo_stack)

AfterUpdate(old, new) == update_item(items, undo_stack, clock + 1, old, new)

UndoAfterUpdate(old, new) ==
  undo(AfterUpdate(old, new).items, AfterUpdate(old, new).undo_stack)

\* C1 as stated: for every record r of the live collection, delete_item(r)
\* returns True, the undo() that follows returns True, and the collection then
\* holds exactly one record with r's id, equal to r in every field.
C1_AsStated ==
  \A r \in Range(items) :
    /\ AfterDelete(r).result
    /\ UndoAfterDelete(r).result
    /\ CountId(UndoAfterDelete(r).items, r.id) = 1
    /\ r \in Range(UndoAfterDelete(r).items)

\* C1 as amended: for every record r of the live collection, delete_item(r)
\* returns True, the undo() that follows returns True, and the collection then
\* holds a record equal to r in every field and as many records with r's id
\* as before the delete (exactly one when r's id was unique in the collection).
C1_UndoRestoresDeleted ==
  \A r \in Range(items) :
    /\ AfterDelete(r).result
    /\ CountId(AfterDelete(r).items, r.id) = CountId(items, r.id) - 1
    /\ UndoAfterDelete(r).result
    /\ r \in Range(UndoAfterDelete(r).items)
    /\ CountId(UndoAfterDelete(r).items, r.id) = CountId(items, r.id)

\* an undo() that followed a successful delete_item has returned True, and the
\* collection holds two records with one id, one of them the restored record
C1_Witness ==
  /\ ret.op = "undo" /\ ret.result
  /\ ret.prev_op = "delete_item" /\ ret.prev_result
  /\ Len(items) = 2
  /\ items[1].id = items[2].id

C3_UndoOnEmptyHistory ==
  [][(undo_stack = <<>> /\ ret' # ret /\ ret'.op = "undo") =>
       /\ ~ret'.result
       /\ UNCHANGED <<items, undo_stack, task_queue, recently_viewed, mvars>>]_vars

\* undo() has returned False on an empty history while records, a queued task
\* and a viewed record were present
C3_Witness ==
  /\ ret.op = "undo" /\ ~ret.result
  /\ ret.prev_op \in {"init", "add_item"}
  /\ undo_stack = <<>> /\ pushed = <<>>
  /\ items # <<>>
  /\ task_queue # <<>>
  /\ recently_viewed # <<>>

\* C4: delete_item(r) for r not in the live collection, and
\* update_item(old, new) for old not in the live collection, return False and
\* leave the live collection and the undo history unchanged: nothing is
\* pushed and nothing is evicted, also when the history is full.
C4_NotFoundChangesNothing ==
  \A r \in LibraryItems \ Range(items) :
    /\ AfterDelete(r) =
         [result |-> FALSE, items |-> items, undo_stack |-> undo_stack]
    /\ \A new \in LibraryItems :
         AfterUpdate(r, new) =
           [result |-> FALSE, items |-> items, undo_stack |-> undo_stack]

\* a delete_item or update_item has returned False while the history was full
\* and a record with another value was in the collection
C4_Witness ==
  /\ ret.op \in {"delete_item", "update_item"} /\ ~ret.result
  /\ Len(undo_stack) = MAX_UNDO_STACK
  /\ items # <<>>

\* C5: the undo history never holds more than 50 snapshots; a push onto a full
\* history evicts the oldest snapshot; the history is always the most recent
\* (at most 50) of the snapshots pushed and not undone, in push order.
C5_HistoryBounded ==
  /\ Len(undo_stack) <= 50
  /\ IsSuffix(undo_stack, pushed)
  /\ \A r \in Range(items) :
       LET m == Memento(r, "DELETE", clock + 1)
           e == Memento(r, "EDIT", clock + 1)
           kept == Min(50, Len(undo_stack) + 1)
       IN /\ AfterDelete(r).undo_stack = LastN(Append(undo_stack, m), kept)
          /\ \A new \in LibraryItems :
               AfterUpdate(r, new).undo_stack =
                 LastN(Append(undo_stack, e), kept)
  /\ (ret.op \in {"delete_item", "update_item"} /\ ret.result) =>
       /\ undo_stack # <<>>
       /\ undo_stack[Len(undo_stack)] = pushed[Len(pushed)]

\* a push onto a full history has evicted the oldest snapshot
C5_Witness ==
  /\ ret.op \in {"delete_item", "update_item"} /\ ret.result
  /\ Len(pushed) = 51
  /\ Len(undo_stack) = 50
  /\ undo_stack[1] = pushed[2]

(***************************************************************************)
(* Properties of the task queue                                            *)
(***************************************************************************)
NonIncreasing(tasks) ==
  \A i, j \in DOMAIN tasks : i < j => tasks[i].priority >= tasks[j].priority

\* C6: get_next_task on a non-empty queue removes and returns exactly one
\* task, of a priority at least that of every task left; on an empty queue it
\* returns None and changes nothing; the tasks drained are of non-increasing
\* priority, and every task added is returned exactly once.
C6_NextTaskIsHighest ==
  /\ (tret.op = "get_next_task" /\ tret.task # <<>>) =>
       \A t \in Range(task_queue) : tret.task[1].priority >= t.priority
  /\ task_queue # <<>> =>
       LET r == get_next_task(task_queue)
       IN /\ Len(r.task) = 1
          /\ Len(r.task_queue) = Len(task_queue) - 1
          /\ Range(r.task_queue) = Range(task_queue) \ Range(r.task)
          /\ \A t \in Range(task_queue) : r.task[1].priority >= t.priority
  /\ task_queue = <<>> =>
       get_next_task(task_queue) = [task |-> <<>>, task_queue |-> <<>>]
  /\ NonIncreasing(drained)
  /\ Range(task_queue) \cup returned = added
  /\ Range(task_queue) \cap returned = {}
  /\ Cardinality(Range(task_queue)) = Len(task_queue)
  /\ Cardinality(Range(drained)) = Len(drained)
  /\ (task_queue = <<>> /\ Len(drained) = Cardinality(added)) =>
       Range(drained) = added

\* a queue of four tasks of three different priorities, added lowest first,
\* has been drained completely
C6_Witness ==
  /\ tret.op = "get_next_task"
  /\ task_queue = <<>>
  /\ Len(drained) = 4
  /\ Range(drained) = added
  /\ drained[1].priority > drained[4].priority
  /\ Cardinality({drained[i].priority : i \in 1..4}) = 3

(***************************************************************************)
(* Properties of the search service                                        *)
(***************************************************************************)
\* the terms of a query: its lowercased whitespace-separated words
Terms(query) == split(lower(query))

\* the whole query as search looks it up: lowercased and trimmed
Looked(query) == strip(lower(query))

\* the keywords the index lists the id under
KeywordsOf(item_id) ==
  {k \in DOMAIN keyword_to_items : item_id \in keyword_to_items[k]}

\* the lowercased title words and the lowercased tags of a record
WordsAndTags(r) ==
  Range(split(lower(r.title))) \cup {lower(r.tags[i]) : i \in DOMAIN r.tags}

\* the ids of the indexed records that have the key as a lowercased title
\* word or as a lowercased tag
IdsWith(key) ==
  {indexed[i].id : i \in {j \in DOMAIN indexed : key \in WordsAndTags(indexed[j])}}

NoRepeats(s) == Cardinality(Range(s)) = Len(s)

C8_AsStated ==
  (sret.op = "search" /\ Looked(sret.query) # <<>>) =>
    \A id \in DOMAIN sret.item_map :
      (\E k \in KeywordsOf(id) : contains(Looked(sret.query), k)) =>
        id \in Range(sret.results)

\* C8 as amended: a query matches a record only when the trimmed lowercased
\* query equals one of the record's indexed keywords: search(t) returns
\* exactly the records of the lookup indexed under lowercase(t), and none
\* that merely has a keyword containing it.
C8_ExactKeywordMatch ==
  sret.op = "search" =>
    /\ Range(sret.results) =
         IF Looked(sret.query) = <<>> THEN {}
         ELSE IdsWith(Looked(sret.query)) \cap DOMAIN sret.item_map
    /\ \A id \in Range(sret.results) : Looked(sret.query) \in KeywordsOf(id)

\* a search for "a" has returned nothing although the record of the lookup
\* is indexed under "ab", and another has returned a record for its keyword
C8_Witness ==
  /\ sret.op = "search"
  /\ sret.query = <<"A">>
  /\ sret.results = <<"id2">>
  /\ "id1" \in DOMAIN sret.item_map
  /\ <<"a", "b">> \in KeywordsOf("id1")

C10_TagFrequencyCountsRecords ==
  LET Carries(r, t) == \E i \in DOMAIN r.tags : lower(r.tags[i]) = t
  IN /\ \A t \in DOMAIN tag_frequency :
          tag_frequency[t] =
            Cardinality({i \in DOMAIN indexed : Carries(indexed[i], t)})
     /\ \A t \in DOMAIN tag_frequency : tag_frequency[t] >= 1

\* the state of a search service as constructed
Fresh == [keyword_to_items |-> EmptyDict, tag_frequency |-> EmptyDict]

\* the state of the search service
Engine == [keyword_to_items |-> keyword_to_items, tag_frequency |-> tag_frequency]

\* C11: build_index is a full rebuild: whatever the indexes hold, after
\* build_index(B) they equal those a fresh service builds from B; no entry of
\* an earlier build survives; build_index(B) twice is build_index(B) once.
C11_FullRebuild ==
  /\ Engine = build_index(Fresh, indexed)
  /\ \A B \in Collections :
       LET once == build_index(Engine, B)
       IN /\ once = build_index(Fresh, B)
          /\ build_index(once, B) = once
          /\ DOMAIN once.keyword_to_items =
               UNION {WordsAndTags(B[i]) : i \in DOMAIN B}
          /\ DOMAIN once.tag_frequency =
               UNION {{lower(B[i].tags[j]) : j \in DOMAIN B[i].tags} : i \in DOMAIN B}

\* build_index has been called on an index that held keywords the new
\* collection does not have, and none of them is left
C11_Witness ==
  /\ sret.op = "build_index"
  /\ indexed # <<>>
  /\ sret.prior \ DOMAIN keyword_to_items # {}
  /\ <<"a", " ", "b">> \in sret.prior
  /\ DOMAIN tag_frequency = {<<"b">>, <<>>}

\* a query that is empty or holds blanks only
Blank(query) == \A i \in DOMAIN query : query[i] = " "

\* C12: whatever the indexes hold, search with an empty or whitespace-only
\* query returns an empty list.
C12_BlankQueryFindsNothing ==
  /\ (sret.op = "search" /\ Blank(sret.query)) => sret.results = <<>>
  /\ \A query \in {q \in Queries : Blank(q)}, item_map \in Lookups :
       \A order \in Orders(matched_ids_of(keyword_to_items, query)) :
         search(keyword_to_items, tag_frequency, query, item_map, order) = <<>>

\* a search for a blank has returned nothing while the index held the empty
\* keyword for a record of the lookup
C12_Witness ==
  /\ sret.op = "search"
  /\ sret.query = <<" ">>
  /\ sret.results = <<>>
  /\ <<>> \in DOMAIN keyword_to_items
  /\ keyword_to_items[<<>>] \cap DOMAIN sret.item_map # {}

\* the relevance score of a record for a query: the sum, over the first n of
\* the record's tags that contain the query, of the tag's tag_frequency value
RECURSIVE ScoreUpTo(_, _, _)
ScoreUpTo(r, q, n) ==
  IF n = 0
    THEN 0
    ELSE ScoreUpTo(r, q, n - 1)
         + (IF contains(q, lower(r.tags[n]))
              THEN tag_frequency[lower(r.tags[n])] ELSE 0)

Score(r, q) == ScoreUpTo(r, q, Len(r.tags))

\* every tag of the records of the lookup is a tag of the index
TagsIndexed(item_map) ==
  \A id \in DOMAIN item_map : \A i \in DOMAIN item_map[id].tags :
    lower(item_map[id].tags[i]) \in DOMAIN tag_frequency

\* C13: the list search returns is ordered by relevance score, highest first,
\* the score of a record being the sum of the tag_frequency values of its
\* tags that contain the (lowercased, trimmed) query.
C13_OrderedByScore ==
  (sret.op = "search" /\ TagsIndexed(sret.item_map)) =>
    \A i, j \in DOMAIN sret.results :
      i < j =>
        Score(sret.item_map[sret.results[i]], Looked(sret.query))
          >= Score(sret.item_map[sret.results[j]], Looked(sret.query))

\* a search has returned two records, the one of the higher score first
C13_Witness ==
  /\ sret.op = "search"
  /\ Len(sret.results) = 2
  /\ TagsIndexed(sret.item_map)
  /\ Score(sret.item_map[sret.results[1]], Looked(sret.query))
       > Score(sret.item_map[sret.results[2]], Looked(sret.query))

\* the order of the characters and of the ids of the model
CharRank(c) ==
  CASE c = " " -> 0 [] c = "a" -> 1 [] c = "b" -> 2 [] c = "c" -> 3
    [] OTHER -> 4

IdRank(id) == IF id = "id1" THEN 1 ELSE 2

\* s comes before t in the order of strings
RECURSIVE StrLess(_, _)
StrLess(s, t) ==
  IF t = <<>> THEN FALSE
  ELSE IF s = <<>> THEN TRUE
  ELSE IF CharRank(Head(s)) # CharRank(Head(t))
         THEN CharRank(Head(s)) < CharRank(Head(t))
         ELSE StrLess(Tail(s), Tail(t))

\* C14: records of equal score are returned by lowercased title ascending and
\* then by id, so that the list returned depends on the query and the
\* records only, not on the order in which the matched ids are iterated.
C14_TiesByTitleThenId ==
  /\ (sret.op = "search" /\ TagsIndexed(sret.item_map)) =>
       \A i, j \in DOMAIN sret.results :
         LET a == sret.item_map[sret.results[i]]
             b == sret.item_map[sret.results[j]]
         IN (i < j /\ Score(a, Looked(sret.query)) = Score(b, Looked(sret.query)))
              => \/ StrLess(lower(a.title), lower(b.title))
                 \/ /\ lower(a.title) = lower(b.title)
                    /\ IdRank(a.id) < IdRank(b.id)
  /\ \A query \in Queries, item_map \in Lookups :
       \A o1, o2 \in Orders(matched_ids_of(keyword_to_items, query)) :
         search(keyword_to_items, tag_frequency, query, item_map, o1)
           = search(keyword_to_items, tag_frequency, query, item_map, o2)

\* C15: with the lookup of the indexed records, a query of one term, in any
\* letter case, returns each once every record that has the lowercased term
\* as a title word or as a tag, and no record none of whose title words and
\* tags contains it; with any lookup, every id returned is a key of it.
C15_SingleTermQuery ==
  /\ sret.op = "search" => Range(sret.results) \subseteq DOMAIN sret.item_map
  /\ (sret.op = "search" /\ Len(Terms(sret.query)) = 1
        /\ sret.item_map = map_of(indexed)) =>
       /\ \A i \in DOMAIN indexed :
            Looked(sret.query) \in WordsAndTags(indexed[i])
              => indexed[i].id \in Range(sret.results)
       /\ NoRepeats(sret.results)
       /\ \A id \in Range(sret.results) :
            \E i \in DOMAIN indexed :
              /\ indexed[i].id = id
              /\ \E k \in WordsAndTags(indexed[i]) :
                   contains(Looked(sret.query), k)

\* a query in upper case has returned, from the lookup of two indexed
\* records, the one record tagged with the term
C15_Witness ==
  /\ sret.op = "search"
  /\ sret.query = <<"A">>
  /\ Len(indexed) = 2
  /\ sret.item_map = map_of(indexed)
  /\ Cardinality(DOMAIN sret.item_map) = 2
  /\ sret.results = <<"id2">>

(***************************************************************************)
(* Properties of the repository                                            *)
(***************************************************************************)
\* the data file has lost a part of what was written
Truncated == data_file.exists /\ Len(data_file.bytes) < Len(written)

WrongMagic == data_file.exists /\ SubSeq(written, 1, 3) # <<76, 73, 66>>

NewerVersion == data_file.exists /\ unpack(SubSeq(written, 4, 7)) > 1

\* C16: load_library returns an empty LibraryData when the data file does not
\* exist, and raises an I/O error when the file exists with a wrong magic
\* number, with a version newer than the supported one, or truncated at any
\* point.
C16_CorruptionIsRaised ==
  /\ ~data_file.exists =>
       load_library(data_file) = Returned(LibraryData(<<>>))
  /\ (WrongMagic \/ NewerVersion \/ Truncated) =>
       load_library(data_file).outcome = "IOError"
  /\ (lret.op = "load_library" /\ (WrongMagic \/ NewerVersion \/ Truncated)) =>
       lret.result.outcome = "IOError"

(***************************************************************************)
(* Properties of a record                                                  *)
(***************************************************************************)
\* C17: for every integer v, set_rating(v) stores 0 if v = 0, 1 if v is
\* negative, 5 if v is above 5 and v otherwise, and changes no other field;
\* the rating stored is within 0..5.
C17_SetRatingClamps ==
  /\ \A v \in Ratings :
       LET after == set_rating(the_item, v)
       IN /\ after.rating =
               (IF v = 0 THEN 0 ELSE IF v < 1 THEN 1 ELSE IF v > 5 THEN 5 ELSE v)
          /\ after.rating \in 0..5
          /\ after = [the_item EXCEPT !.rating = after.rating]
  /\ iret.op = "set_rating" => the_item.rating \in 0..5

\* set_rating(-6) has stored the lowest rating in a record that has tags
C17_Witness ==
  /\ iret.op = "set_rating"
  /\ iret.arg = 0 - 6
  /\ the_item.rating = 1
  /\ the_item.tags # <<>>

\* no two tags of the list are equal when letter case is ignored
NoDuplicateTags(tags) ==
  \A i, j \in DOMAIN tags : i # j => lower(tags[i]) # lower(tags[j])

\* C18: every record produced or modified through the constructor,
\* from_dict, set_rating, add_tag and remove_tag has a rating in 0..5 and a
\* tag list with no two tags equal under case-insensitive comparison.
C18_RecordInvariant ==
  /\ the_item.rating \in 0..5
  /\ NoDuplicateTags(the_item.tags)

\* the tag as add_tag stores it: trimmed and lowercase
Normal(tag) == lower(strip(tag))

\* the given tag is in the list, whatever the case
Present(tags, tag) == \E i \in DOMAIN tags : lower(tags[i]) = Normal(tag)

\* C19: on a record made by the constructor, after any sequence of add_tag
\* and remove_tag calls, every stored tag is trimmed and lowercase and no tag
\* is stored twice; add_tag of a tag already present in any case, or of a
\* blank tag, leaves the list unchanged, and a new tag goes to the end of the
\* list; remove_tag keeps the order of the tags that stay.
C19_AddTagIdempotent ==
  iret.origin = "Item" =>
    /\ \A i \in DOMAIN the_item.tags : the_item.tags[i] = Normal(the_item.tags[i])
    /\ NoDuplicateTags(the_item.tags)
    /\ \A tag \in TagInputs :
         /\ add_tag(the_item, tag).tags =
              IF Normal(tag) = <<>> \/ Present(the_item.tags, tag)
                THEN the_item.tags
                ELSE Append(the_item.tags, Normal(tag))
         /\ LET after == remove_tag(the_item, tag).item.tags
            IN \/ after = the_item.tags
               \/ \E i \in DOMAIN the_item.tags : after = RemoveAt(the_item.tags, i)

\* the snapshots there are: those of the undo history and the one taken
\* outside the service
Snapshots == Range(undo_refs) \cup Range(snap)

\* the saved record of every snapshot is as the original was when the
\* snapshot was taken
SavedAsTaken == \A m \in Snapshots : Deref(store, m.saved_item) = m.asof

Count(bools) == Cardinality({i \in DOMAIN bools : bools[i]})

\* b holds the elements of a, each as often as a does
Permutation(a, b) ==
  /\ Len(a) = Len(b)
  /\ \A x \in Range(a) \cup Range(b) :
       Cardinality({i \in DOMAIN a : a[i] = x})
         = Cardinality({i \in DOMAIN b : b[i] = x})

C22_PeekIsNext ==
  [][tret'.op = "peek_next_task" =>
       /\ task_queue' = task_queue
       /\ tret'.task = get_next_task(task_queue').task
       /\ task_queue = <<>> => tret'.task = <<>>]_vars

\* peek_next_task has shown the first of three queued tasks, which shares
\* the highest priority with another task of a different description
C22_Witness ==
  /\ tret.op = "peek_next_task"
  /\ Len(task_queue) = 3
  /\ tret.task = <<task_queue[1]>>
  /\ \E i \in 2..3 :
       /\ task_queue[i].priority = task_queue[1].priority
       /\ task_queue[i] # task_queue[1]
  /\ \E i \in 2..3 : task_queue[i].priority < task_queue[1].priority

\* C23: the recently-viewed stack holds at most 50 entries after any
\* sequence of view_item and get_last_viewed calls; view_item on a full
\* stack evicts the oldest entry and puts the record on top; get_last_viewed
\* removes and returns the most recently viewed entry still held, or returns
\* None and changes nothing when the stack is empty.
C23_BoundedLifo ==
  /\ Len(recently_viewed) <= 50
  /\ out.op = "view_item" =>
       /\ recently_viewed[Len(recently_viewed)] = out.item[1]
       /\ IF Len(out.before) = 50
            THEN /\ Len(recently_viewed) = 50
                 /\ \A i \in 1..49 : recently_viewed[i] = out.before[i + 1]
            ELSE SubSeq(recently_viewed, 1, Len(out.before)) = out.before
  /\ out.op = "get_last_viewed" =>
       IF out.before = <<>>
         THEN out.item = <<>> /\ recently_viewed = <<>>
         ELSE /\ out.item = <<out.before[Len(out.before)]>>
              /\ recently_viewed = SubSeq(out.before, 1, Len(out.before) - 1)

\* view_item on a stack of 50 entries has evicted the oldest entry, which
\* differs from the one after it
C23_Witness ==
  /\ out.op = "view_item"
  /\ Len(out.before) = 50
  /\ out.before[1] # out.before[2]
  /\ recently_viewed[1] = out.before[2]
  /\ given # <<>>

\* C24: for every count >= 0, get_recent_history(count) returns exactly the
\* min(count, size) most recently viewed entries, most recent first, and
\* leaves the recently-viewed stack unchanged.
C24_RecentHistory ==
  out.op = "get_recent_history" =>
    /\ Len(out.item) = Min(out.count, Len(out.before))
    /\ \A i \in DOMAIN out.item :
         out.item[i] = out.before[Len(out.before) + 1 - i]
    /\ recently_viewed = out.before

(***************************************************************************)
(* Properties of the application over its sessions                         *)
(***************************************************************************)
\* C25: tasks queued at save time survive a restart: after the data are
\* saved and the file is loaded into a new session (load_library, then
\* load_data), the task queue of the library service holds the same tasks,
\* and the records saved are the records of the new session.
C25_TasksSurviveRestart ==
  tret.op = "start" =>
    /\ Permutation(out.tasks, task_queue)
    /\ items = out.items

(***************************************************************************)
(* Properties of the popular tags and the keyword suggestions              *)
(***************************************************************************)
\* position of x in the sequence
PositionIn(seq, x) == CHOOSE i \in DOMAIN seq : seq[i] = x

\* the keys listed are the keys of the dicts
KeysAreListed ==
  /\ Range(keyword_keys(indexed)) = DOMAIN keyword_to_items
  /\ Range(tag_keys(indexed)) = DOMAIN tag_frequency

\* C26: get_popular_tags(count) returns min(count, number of distinct tags)
\* pairs (tag, tag_frequency[tag]) of distinct tags with frequencies
\* non-increasing; no omitted tag has a higher frequency than a returned
\* one; the result is fixed by the sequence of indexed records: tags of
\* equal frequency come in the order in which the records brought them in.
C26_PopularTags ==
  /\ KeysAreListed
  /\ out.op = "get_popular_tags" =>
       LET r == out.value
           listed == {r[i][1] : i \in DOMAIN r}
       IN /\ Len(r) = Min(out.count, Cardinality(DOMAIN out.frequency))
          /\ Cardinality(listed) = Len(r)
          /\ \A i \in DOMAIN r :
               /\ r[i][1] \in DOMAIN out.frequency
               /\ r[i][2] = out.frequency[r[i][1]]
          /\ \A i, j \in DOMAIN r :
               i < j =>
                 /\ r[i][2] >= r[j][2]
                 /\ r[i][2] = r[j][2] =>
                      PositionIn(tag_keys(out.indexed), r[i][1])
                        < PositionIn(tag_keys(out.indexed), r[j][1])
          /\ \A t \in DOMAIN out.frequency \ listed :
               \A i \in DOMAIN r : out.frequency[t] <= r[i][2]

\* get_popular_tags(2) has returned the most frequent tag and the first of
\* two tags of the lower frequency, leaving the other one out
C26_Witness ==
  /\ out.op = "get_popular_tags"
  /\ out.count = 2
  /\ Cardinality(DOMAIN out.frequency) = 3
  /\ Len(out.value) = 2
  /\ out.value[1][2] > out.value[2][2]
  /\ out.value[1][1] # tag_keys(out.indexed)[1]
  /\ \E t \in DOMAIN out.frequency :
       /\ t # out.value[2][1]
       /\ out.frequency[t] = out.value[2][2]

\* C27: suggest_keywords(prefix, max_results) returns at most max_results
\* indexed keywords, all distinct and starting with the trimmed lowercased
\* prefix, ordered by the number of records carrying the keyword descending
\* with ties in the order of strings; no omitted matching keyword ranks
\* before a returned one; an empty or whitespace-only prefix yields an empty
\* list.
C27_SuggestKeywords ==
  out.op = "suggest_keywords" =>
    LET r == out.value
        p == strip(lower(out.prefix))
        carried(k) == Cardinality(out.index[k])
        Before(k, l) ==
          \/ carried(k) > carried(l)
          \/ carried(k) = carried(l) /\ StrLess(k, l)
        matching == {k \in DOMAIN out.index : startswith(k, p)}
    IN /\ Len(r) <= out.count
       /\ Cardinality(Range(r)) = Len(r)
       /\ Range(r) \subseteq matching
       /\ \A i, j \in DOMAIN r : i < j => Before(r[i], r[j])
       /\ \A k \in matching \ Range(r) : \A i \in DOMAIN r : ~Before(k, r[i])
       /\ p = <<>> => r = <<>>
       /\ p # <<>> => Len(r) = Min(out.count, Cardinality(matching))

\* what build_index made of the indexed collection
BuiltIndex ==
  build_index([keyword_to_items |-> EmptyDict, tag_frequency |-> EmptyDict],
              indexed)

\* C28: changing what get_keyword_index() or get_tag_frequency() returned,
\* the id sets inside the returned keyword index included, leaves the engine's
\* keyword index and tag frequencies as build_index made them (and with them
\* the results of later searches, which are computed from these two alone)
C28_DefensiveCopies ==
  out.op \in {"set_edit", "dict_edit"} =>
    /\ keyword_to_items = BuiltIndex.keyword_to_items
    /\ tag_frequency = BuiltIndex.tag_frequency

\* the directory entries at or below a directory
Under(directory) ==
  {e \in entries : /\ Len(e.path) > Len(directory)
                   /\ SubSeq(e.path, 1, Len(directory)) = directory}

\* the files under the directory of the last call that have a supported
\* extension and were not processed before it, by resolved path
Due ==
  {realpath(e.path) : e \in {d \in Under(mret.directory) :
                         /\ is_file(d, entries)
                         /\ lower(path_suffix(d.path)) \in SUPPORTED_EXTENSIONS
                         /\ realpath(d.path) \notin mret.before}}

\* C29: import_from_directory returns exactly one Record for every file under
\* the directory that has a supported extension and was not processed by an
\* earlier import; the Record's type is that of the extension-to-type table
\* and its file reference is that file
C29_ImportReturnsRecords ==
  mret.op = "import_from_directory" /\ is_dir(mret.directory) =>
    LET r == mret.value
        file(i) == realpath(r[i].file_path)
    IN /\ Len(r) = Cardinality(Due)
       /\ \A f \in Due : Cardinality({i \in DOMAIN r : file(i) = f}) = 1
       /\ \A i \in DOMAIN r :
            /\ file(i) \in Due
            /\ r[i].type = TYPE_MAPPING[lower(path_suffix(r[i].file_path))]

\* C30: over the calls of scan_directory and import_from_directory on one
\* set of processed paths, no resolved path is returned twice, and a call
\* repeated on an unchanged directory returns an empty list
C30_ReturnedOnce ==
  /\ NoRepeats(yielded)
  /\ mret.again => mret.files = <<>> /\ mret.value = <<>>

\* a scan repeated after two files were returned, with a link and the file it
\* points to both on disk
C30_Witness ==
  /\ mret.again
  /\ mret.op = "scan_directory"
  /\ is_dir(mret.directory)
  /\ Len(yielded) >= 2
  /\ \E e \in entries :
       e.kind = "link" /\ is_file(e, entries) /\ realpath(e.path) \in Range(yielded)

\* C37: constructing a record with an integer rating r stores what
\* set_rating(r) stores: 0 for r = 0, r clamped to 1..5 for every other r
C37_ConstructorClampsAsSetter ==
  \A r \in Ratings :
    LET made == construct_item(the_item.title, the_item.category,
                               the_item.type, the_item.tags, r)
    IN /\ made.raised = "no"
       /\ made.item.rating = set_rating(the_item, r).rating
       /\ made.item.rating =
            (IF r = 0 THEN 0 ELSE IF r < 1 THEN 1 ELSE IF r > 5 THEN 5 ELSE r)

\* C39: in every state, also after set_priority was called on queued tasks,
\* the task peek_next_task shows and get_next_task removes is of a priority
\* at least that of every queued task
C39_NextTaskIsMaximal ==
  task_queue # <<>> =>
    /\ \A t \in Range(task_queue) :
         peek_next_task(task_queue)[1].priority >= t.priority
    /\ \A t \in Range(task_queue) :
         get_next_task(task_queue).task[1].priority >= t.priority

\* C33: delete_item(r) and update_item(r, n) succeed exactly when the
\* collection holds a record with r's id, whatever the other fields of r,
\* and then the record with that id is the one removed or replaced
C33_PresenceById ==
  \A r \in LibraryItems :
    LET present == \E i \in DOMAIN items : items[i].id = r.id
        i == FirstWithId(items, r.id)
        deleted == delete_item(items, undo_stack, clock + 1, r)
    IN /\ deleted.result = present
       /\ present => deleted.items = RemoveAt(items, i)
       /\ \A n \in LibraryItems :
            LET updated == update_item(items, undo_stack, clock + 1, r, n)
            IN /\ updated.result = present
               /\ present => updated.items = [items EXCEPT ![i] = n]

\* C31: undo() on a non-empty history removes the newest snapshot and no
\* other; after k <= 50 successful delete_item/update_item calls in a row
\* (updates keeping the id), each of k undo() calls in a row returns True,
\* and the collection then holds the records, equal in every field, that it
\* held before the call undone, the k-th one those before the first call
C31_AsStated ==
  out.op = "undo" =>
    /\ out.before # <<>> =>
         undo_stack = SubSeq(out.before, 1, Len(out.before) - 1)
    /\ out.tracked =>
         /\ out.result
         /\ Range(items) = out.expected.items

\* C31, for collections in which no two records share an id: the same
C31_UndoIsLastInFirstOut ==
  out.op = "undo" =>
    /\ out.before # <<>> =>
         undo_stack = SubSeq(out.before, 1, Len(out.before) - 1)
    /\ (out.tracked /\ out.expected.unique) =>
         /\ out.result
         /\ Range(items) = out.expected.items
         /\ unique_ids(items)

\* two calls in a row were undone by two calls of undo() in a row; the
\* collection has the distinct ids it had before
C31_Witness ==
  /\ out.op = "undo" /\ out.tracked /\ out.expected.unique
  /\ out.row = 2
  /\ given.run = <<>>
  /\ pushes_left = 0
  /\ out.expected.items # {}

\* C32: undo() returns False exactly when the history is empty; on a
\* non-empty history it returns True and the state saved by the snapshot it
\* popped is back in the collection
C32_UndoFailsOnlyOnEmptyHistory ==
  out.op = "undo" =>
    /\ ~out.result <=> out.before = <<>>
    /\ out.before # <<>> =>
         out.before[Len(out.before)].saved_item \in Range(items)

\* C38: while add_item has only been called with ids that were neither in the
\* collection nor in the history, and update_item only with new records of
\* the old record's id, no two records of the collection share an id
C38_NoSharedIds == given.proper => unique_ids(items)

\* after a full history has evicted the deletion of a record, a record with
\* that id was added, and an undo was done: two records, two ids
C38_Witness ==
  /\ given.proper
  /\ out.op = "undo" /\ out.result
  /\ clock > MAX_UNDO_STACK
  /\ Len(out.before) = MAX_UNDO_STACK
  /\ "id2" \notin saved_ids(out.before)
  /\ ids_of(items) = {"id1", "id2"}

\* C34: a step of delete_item, update_item or undo leaves the task queue as
\* it was, the tasks of a deleted record included; get_next_task returns a
\* task of the highest priority queued, whether its record exists or not
C34_TaskQueueKeepsOrphans ==
  /\ [][(ret'.op \in {"delete_item", "update_item", "undo"}
           /\ libvars' # libvars) => task_queue' = task_queue]_vars
  /\ [][(tret'.op = "get_next_task" /\ <<task_queue, tret>>' # <<task_queue, tret>>
           /\ task_queue # <<>>) =>
          /\ tret'.task # <<>>
          /\ \A t \in Range(task_queue) :
               tret'.task[1].priority >= t.priority
          /\ \E i \in DOMAIN task_queue :
               /\ task_queue[i] = tret'.task[1]
               /\ Range(task_queue') = Range(RemoveAt(task_queue, i))]_vars

\* the record of two queued tasks was deleted, and get_next_task has returned
\* the one of the higher priority while the other is still queued
C34_Witness ==
  /\ ret.op = "delete_item" /\ ret.result
  /\ tret.op = "get_next_task" /\ tret.task # <<>>
  /\ tret.task[1].item_id \notin {items[i].id : i \in DOMAIN items}
  /\ task_queue # <<>>
  /\ \A t \in Range(task_queue) :
       /\ t.item_id = tret.task[1].item_id
       /\ t.priority < tret.task[1].priority

\* C35: a search of the controller shows records of the collection as it is
\* at that moment only, and shows every record of it that has the text
\* searched for as a word of its title or as a tag
C35_SearchSeesLiveCollection ==
  sret.op = "handle_search" =>
    /\ Range(sret.results) \subseteq sret.prior
    /\ \A r \in sret.prior :
         (sret.query \in Range(split(r.title)) \cup Range(r.tags)) =>
           r \in Range(sret.results)

\* C36: when the load of an existing data file at the start of a session has
\* failed, the save of that session at its end leaves the file as it is
C36_CorruptedFileIsKept ==
  [][(/\ lret.op = "load_library"
      /\ lret.result.outcome = "IOError"
      /\ data_file.exists
      /\ tret'.op = "quit") => data_file' = data_file]_vars

====
